---------------------------- MODULE Spec2Model ----------------------------
(***************************************************************************)
(* HexaCanvas: the tiling-grid geometry engine (HexGrid, TriangleGrid,     *)
(* PixelGrid, GridManager) and the canvas store's flood fill.              *)
(*                                                                         *)
(* JavaScript numbers are IEEE-754 binary64 values.  The grid code's       *)
(* results depend on their rounding (Math.floor((q * size) / size) is not  *)
(* q for every size), so the geometry is computed here on binary64 values, *)
(* with round-to-nearest-even after every operation, as the engine does.   *)
(***************************************************************************)
EXTENDS Integers, Sequences, FiniteSets, TLC

(***************************************************************************)
(* Natural numbers of arbitrary size: little-endian sequences of limbs in  *)
(* base 2^14 without leading zero limbs (the empty sequence is 0).  They   *)
(* carry the 53-bit significands and their exact products and quotients.   *)
(***************************************************************************)
LimbBase == 2^14

Limb(a, i) == IF i <= Len(a) THEN a[i] ELSE 0

RECURSIVE BNorm(_)
BNorm(a) ==
  IF a = <<>> THEN a
  ELSE IF a[Len(a)] = 0 THEN BNorm(SubSeq(a, 1, Len(a) - 1)) ELSE a

RECURSIVE BFromNat(_)
BFromNat(n) ==
  IF n = 0 THEN <<>> ELSE <<n % LimbBase>> \o BFromNat(n \div LimbBase)

RECURSIVE BToNat(_)
BToNat(a) ==
  IF a = <<>> THEN 0 ELSE a[1] + LimbBase * BToNat(Tail(a))

RECURSIVE BAddC(_, _, _, _)
BAddC(a, b, i, c) ==
  IF i > Len(a) /\ i > Len(b)
  THEN (IF c = 0 THEN <<>> ELSE <<c>>)
  ELSE LET s == Limb(a, i) + Limb(b, i) + c
       IN  <<s % LimbBase>> \o BAddC(a, b, i + 1, s \div LimbBase)

BAdd(a, b) == BAddC(a, b, 1, 0)

RECURSIVE BSubC(_, _, _, _)
BSubC(a, b, i, c) ==
  IF i > Len(a) THEN <<>>
  ELSE LET s == Limb(a, i) - Limb(b, i) - c
       IN  IF s < 0 THEN <<s + LimbBase>> \o BSubC(a, b, i + 1, 1)
           ELSE <<s>> \o BSubC(a, b, i + 1, 0)

\* a - b for a >= b
BSub(a, b) == BNorm(BSubC(a, b, 1, 0))

RECURSIVE BCmpFrom(_, _, _)
BCmpFrom(a, b, i) ==
  IF i = 0 THEN 0
  ELSE IF a[i] < b[i] THEN -1
  ELSE IF a[i] > b[i] THEN 1
  ELSE BCmpFrom(a, b, i - 1)

\* -1, 0 or 1 as a < b, a = b, a > b
BCmp(a, b) ==
  IF Len(a) < Len(b) THEN -1
  ELSE IF Len(a) > Len(b) THEN 1
  ELSE BCmpFrom(a, b, Len(a))

RECURSIVE BMulSmallC(_, _, _, _)
BMulSmallC(a, k, i, c) ==
  IF i > Len(a)
  THEN (IF c = 0 THEN <<>> ELSE <<c>>)
  ELSE LET s == a[i] * k + c
       IN  <<s % LimbBase>> \o BMulSmallC(a, k, i + 1, s \div LimbBase)

\* a * k for 0 <= k < LimbBase
BMulSmall(a, k) == IF k = 0 THEN <<>> ELSE BMulSmallC(a, k, 1, 0)

BShlLimbs(a, n) == IF a = <<>> THEN a ELSE [i \in 1..n |-> 0] \o a

RECURSIVE BMulAcc(_, _, _, _)
BMulAcc(a, b, j, acc) ==
  IF j > Len(b) THEN acc
  ELSE BMulAcc(a, b, j + 1, BAdd(acc, BShlLimbs(BMulSmall(a, b[j]), j - 1)))

BMul(a, b) == BMulAcc(a, b, 1, <<>>)

\* a * 2^k
BShl(a, k) == BShlLimbs(BMulSmall(a, 2^(k % 14)), k \div 14)

RECURSIVE BDivSmallC(_, _, _, _)
BDivSmallC(a, d, i, rem) ==
  IF i = 0 THEN <<>>
  ELSE LET cur == rem * LimbBase + a[i]
       IN  BDivSmallC(a, d, i - 1, cur % d) \o <<cur \div d>>

\* floor(a / 2^k)
BShr(a, k) ==
  LET n == k \div 14
      hi == IF n >= Len(a) THEN <<>> ELSE SubSeq(a, n + 1, Len(a))
  IN  BNorm(BDivSmallC(hi, 2^(k % 14), Len(hi), 0))

RECURSIVE BitLenNat(_)
BitLenNat(n) == IF n = 0 THEN 0 ELSE 1 + BitLenNat(n \div 2)

BBitLen(a) ==
  IF a = <<>> THEN 0 ELSE 14 * (Len(a) - 1) + BitLenNat(a[Len(a)])

BIsOdd(a) == a # <<>> /\ a[1] % 2 = 1

BOne == <<1>>

(***************************************************************************)
(* binary64 values: [neg, man, exp] stands for (-1)^neg * man * 2^exp with *)
(* man a 53-bit significand (2^52 <= man < 2^53), or man = 0 for zero.     *)
(* The values the grids compute on here are normal and finite; -0 and +0   *)
(* are one value (they compare equal and print the same cell key).         *)
(***************************************************************************)
MantBits == 53

FZero == [neg |-> FALSE, man |-> <<>>, exp |-> 0]

FIsZero(x) == x.man = <<>>

\* the significand q2 after rounding, renormalised when the carry made it
\* 54 bits long
FRoundCarry(neg, e, q2) ==
  IF BBitLen(q2) > MantBits
  THEN [neg |-> neg, man |-> BShr(q2, 1), exp |-> e + 1]
  ELSE [neg |-> neg, man |-> q2, exp |-> e]

\* q is the significand cut to 53 bits and c compares the bits cut off with
\* half a unit of q's last bit: round up above the half, and at the half when
\* more was lost (sticky) or q is odd
FRoundTie(neg, e, q, c, sticky) ==
  FRoundCarry(neg, e,
              IF c > 0 \/ (c = 0 /\ (sticky \/ BIsOdd(q)))
              THEN BAdd(q, BOne) ELSE q)

\* q = floor(m / 2^k)
FRoundCut(neg, m, e, sticky, k, q) ==
  FRoundTie(neg, e + k, q, BCmp(BSub(m, BShl(q, k)), BShl(BOne, k - 1)), sticky)

FRoundLen(neg, m, e, sticky, len) ==
  IF m = <<>> THEN FZero
  ELSE IF len <= MantBits
  THEN [neg |-> neg, man |-> BShl(m, MantBits - len), exp |-> e - (MantBits - len)]
  ELSE FRoundCut(neg, m, e, sticky, len - MantBits, BShr(m, len - MantBits))

\* (-1)^neg * m * 2^e, plus a nonzero amount below m's last bit when sticky,
\* rounded to the nearest binary64 value, ties to the even significand
FRound53(neg, m, e, sticky) == FRoundLen(neg, m, e, sticky, BBitLen(m))

\* an integer as a Number (exact below 2^53)
FromInt(n) == FRound53(n < 0, BFromNat(IF n < 0 THEN -n ELSE n), 0, FALSE)

FNeg(x) == IF FIsZero(x) THEN x ELSE [x EXCEPT !.neg = ~x.neg]

FAbs(x) == [x EXCEPT !.neg = FALSE]

\* x * y
FMul(x, y) ==
  IF FIsZero(x) \/ FIsZero(y) THEN FZero
  ELSE FRound53(x.neg # y.neg, BMul(x.man, y.man), x.exp + y.exp, FALSE)

\* restoring division: from the quotient bits q and the remainder r of a
\* division by d, n more quotient bits (Len(q) is read at every step so that
\* q is computed step by step)
RECURSIVE BDivBits(_, _, _, _)
BDivBits(r, d, q, n) ==
  IF n = 0 \/ Len(q) < 0 THEN <<q, r>>
  ELSE IF BCmp(BAdd(r, r), d) >= 0
       THEN BDivBits(BSub(BAdd(r, r), d), d, BAdd(BAdd(q, q), BOne), n - 1)
       ELSE BDivBits(BAdd(r, r), d, BAdd(q, q), n - 1)

\* the leading quotient bit of a / b for significands a, b
FDivFirst(a, b) ==
  IF BCmp(a, b) >= 0 THEN <<BOne, BSub(a, b)>> ELSE <<(<<>>), a>>

\* 14 more quotient bits after qr = <<quotient, remainder>>
FDivRun(qr, d) == BDivBits(qr[2], d, qr[1], 14)

FDivEnd(x, y, qr) ==
  FRound53(x.neg # y.neg, qr[1], x.exp - y.exp - 56, qr[2] # <<>>)

\* x / y for y # 0: the leading quotient bit, 56 more bits, and the remainder
\* as the sticky bit
FDiv(x, y) ==
  IF FIsZero(x) THEN FZero
  ELSE FDivEnd(x, y, FDivRun(FDivRun(FDivRun(FDivRun(
                       FDivFirst(x.man, y.man), y.man), y.man), y.man), y.man))

\* compare magnitudes: -1, 0, 1
FCmpMag(x, y) ==
  IF FIsZero(x) THEN (IF FIsZero(y) THEN 0 ELSE -1)
  ELSE IF FIsZero(y) THEN 1
  ELSE IF x.exp < y.exp THEN -1
  ELSE IF x.exp > y.exp THEN 1
  ELSE BCmp(x.man, y.man)

\* -1, 0 or 1 as x < y, x = y, x > y
FCmp(x, y) ==
  IF FIsZero(x) /\ FIsZero(y) THEN 0
  ELSE IF x.neg /\ ~FIsZero(x)
       THEN (IF y.neg /\ ~FIsZero(y) THEN FCmpMag(y, x) ELSE -1)
       ELSE (IF y.neg /\ ~FIsZero(y) THEN 1 ELSE FCmpMag(x, y))

FLt(x, y) == FCmp(x, y) < 0

FLe(x, y) == FCmp(x, y) <= 0

FGt(x, y) == FCmp(x, y) > 0

FGe(x, y) == FCmp(x, y) >= 0

FEq(x, y) == FCmp(x, y) = 0

\* a * 2^e and b * 2^e with signs xn, yn; c compares a with b
FAddAligned(xn, yn, a, b, e, c) ==
  FRound53(IF xn = yn \/ c > 0 THEN xn ELSE yn,
           IF xn = yn THEN BAdd(a, b)
           ELSE IF c >= 0 THEN BSub(a, b) ELSE BSub(b, a),
           e, FALSE)

FAddAt(x, y, e) ==
  FAddAligned(x.neg, y.neg, BShl(x.man, x.exp - e), BShl(y.man, y.exp - e), e,
              BCmp(BShl(x.man, x.exp - e), BShl(y.man, y.exp - e)))

\* x + y
FAdd(x, y) ==
  IF FIsZero(x) THEN y
  ELSE IF FIsZero(y) THEN x
  ELSE IF x.exp - y.exp > 60 THEN x
  ELSE IF y.exp - x.exp > 60 THEN y
  ELSE FAddAt(x, y, IF x.exp < y.exp THEN x.exp ELSE y.exp)

\* x - y
FSub(x, y) == FAdd(x, FNeg(y))

\* ip = floor(|x|) for x = man * 2^(-k)
FFloorOf(x, k, ip) ==
  IF x.neg
  THEN (IF k <= 60 /\ BShl(ip, k) = x.man THEN -BToNat(ip) ELSE -BToNat(ip) - 1)
  ELSE BToNat(ip)

\* Math.floor(x) as an integer, for |x| < 2^31
FFloor(x) ==
  IF FIsZero(x) THEN 0
  ELSE FFloorOf(x, -x.exp, IF -x.exp > 60 THEN <<>> ELSE BShr(x.man, -x.exp))

\* floor((2x + 1) / 2) for x = man * 2^(-k-1) and one = 2^k
FRoundIntOf(x, k, one) ==
  IF ~x.neg THEN BToNat(BShr(BAdd(x.man, one), k + 1))
  ELSE IF BCmp(x.man, one) <= 0 THEN 0
  ELSE -BToNat(BShr(BAdd(BSub(x.man, one), BSub(BAdd(one, one), BOne)), k + 1))

\* Math.round(x) as an integer, for |x| < 2^31: the integer nearest to x,
\* the larger one at a tie
FRoundInt(x) ==
  IF FIsZero(x) THEN 0
  ELSE IF -(x.exp + 1) > 60 THEN 0
  ELSE FRoundIntOf(x, -(x.exp + 1), BShl(BOne, -(x.exp + 1)))

RECURSIVE BSqrtBits(_, _, _, _, _)
\* the root gains a bit: 1 when the trial subtrahend 4 * root + 1 fits the
\* remainder
BSqrtStep(m, root, rem, trial, j, n) ==
  IF BCmp(rem, trial) >= 0
  THEN BSqrtBits(m, BAdd(BAdd(root, root), BOne), BSub(rem, trial), j - 1, n - 1)
  ELSE BSqrtBits(m, BAdd(root, root), rem, j - 1, n - 1)

\* the square root by digits, n more bits: the next two bits of m (pair j,
\* zero below m) are brought down to the remainder (Len(root) is read at
\* every step so that root is computed step by step)
BSqrtBits(m, root, rem, j, n) ==
  IF n = 0 \/ Len(root) < 0 THEN <<root, rem, j>>
  ELSE BSqrtStep(m, root,
                 BAdd(BShl(rem, 2),
                      BFromNat(IF j < 0 THEN 0 ELSE Limb(BShr(m, 2 * j), 1) % 4)),
                 BAdd(BShl(root, 2), BOne), j, n)

\* 14 more bits of the root after rr = <<root, remainder, next pair>>
FSqrtRun(m, rr) == BSqrtBits(m, rr[1], rr[2], rr[3], 14)

FSqrtEnd(e, rr) == FRound53(FALSE, rr[1], (e \div 2) - 29, rr[2] # <<>>)

\* the square root of m * 2^e for e even and m below 2^54: the 56 bits of
\* floor(sqrt(m * 2^58)) and the remainder as the sticky bit
FSqrtEven(m, e) ==
  FSqrtEnd(e, FSqrtRun(m, FSqrtRun(m, FSqrtRun(m, FSqrtRun(m,
                <<(<<>>), (<<>>), 26>>)))))

\* Math.sqrt(x) for x >= 0
FSqrt(x) ==
  IF FIsZero(x) THEN FZero
  ELSE IF x.exp % 2 = 0 THEN FSqrtEven(x.man, x.exp)
  ELSE FSqrtEven(BShl(x.man, 1), x.exp - 1)

\* Math.sqrt(Math.pow(x - sx, 2) + Math.pow(y - sy, 2))
Distance(x, y, sx, sy) ==
  FSqrt(FAdd(FMul(FSub(x, sx), FSub(x, sx)), FMul(FSub(y, sy), FSub(y, sy))))

\* Math.sqrt(3) = 0x3FFBB67AE8584CAA
Sqrt3 == [neg |-> FALSE, man |-> <<3242, 8545, 10158, 1773>>, exp |-> -52]

\* a decimal literal num/den (den a power of ten): the nearest binary64 value
FLit(num, den) == FDiv(FromInt(num), FromInt(den))

\* a % n of JavaScript: the remainder takes the sign of a
JsRem(a, n) == IF a >= 0 THEN a % n ELSE -((-a) % n)

FOne == FromInt(1)

FTwo == FromInt(2)

FThree == FromInt(3)

FHalf == FLit(5, 10)

Pt(x, y) == [x |-> x, y |-> y]

Cell(q, r) == [q |-> q, r |-> r]

(***************************************************************************)
(* PixelGrid (src/unnamed/part_000).  size is the grid's size field.       *)
(***************************************************************************)
\* a variant that returns the middle of the cell's left and top edges instead
\* of q * size, r * size
PixelGrid_axialToPixel_Shifted(size, q, r) ==
  Pt(FSub(FMul(FromInt(q), size), FDiv(size, FTwo)),
     FSub(FMul(FromInt(r), size), FDiv(size, FTwo)))

PixelGrid_axialToPixel(size, q, r) ==
  Pt(FMul(FromInt(q), size), FMul(FromInt(r), size))

PixelGrid_pixelToAxial(size, x, y) ==
  Cell(FFloor(FDiv(x, size)), FFloor(FDiv(y, size)))

PixelGrid_square(centerX, centerY, halfSize) ==
  << Pt(FSub(centerX, halfSize), FSub(centerY, halfSize)),
     Pt(FAdd(centerX, halfSize), FSub(centerY, halfSize)),
     Pt(FAdd(centerX, halfSize), FAdd(centerY, halfSize)),
     Pt(FSub(centerX, halfSize), FAdd(centerY, halfSize)) >>

PixelGrid_getCellVertices(size, centerX, centerY) ==
  PixelGrid_square(centerX, centerY, FDiv(size, FTwo))

PixelGrid_getNeighbors(q, r) ==
  << Cell(q + 1, r), Cell(q - 1, r), Cell(q, r + 1), Cell(q, r - 1) >>

PixelGrid_inSquare(x, y, cellX, cellY, halfSize) ==
  /\ FGe(x, FSub(cellX, halfSize))
  /\ FLe(x, FAdd(cellX, halfSize))
  /\ FGe(y, FSub(cellY, halfSize))
  /\ FLe(y, FAdd(cellY, halfSize))

PixelGrid_pointInCell(size, x, y, cellX, cellY) ==
  PixelGrid_inSquare(x, y, cellX, cellY, FDiv(size, FTwo))

(***************************************************************************)
(* HexGrid (utils/hexGrid.ts).                                             *)
(***************************************************************************)
\* 3 / 2, Math.sqrt(3) / 2, 2 / 3, -1 / 3 and Math.sqrt(3) / 3
F3_2 == FDiv(FThree, FTwo)

FSqrt3_2 == FDiv(Sqrt3, FTwo)

F2_3 == FDiv(FTwo, FThree)

FNeg1_3 == FDiv(FromInt(-1), FThree)

FSqrt3_3 == FDiv(Sqrt3, FThree)

HexGrid_axialToPixel(size, q, r) ==
  Pt(FMul(size, FMul(F3_2, FromInt(q))),
     FMul(size, FAdd(FMul(FSqrt3_2, FromInt(q)), FMul(Sqrt3, FromInt(r)))))

\* the rounded coordinate with the largest rounding error is recomputed from
\* the other two
HexGrid_roundHexFix(q, r, s, qDiff, rDiff, sDiff) ==
  IF FGt(qDiff, rDiff) /\ FGt(qDiff, sDiff) THEN [q |-> -r - s, r |-> r, s |-> s]
  ELSE IF FGt(rDiff, sDiff) THEN [q |-> q, r |-> -q - s, s |-> s]
  ELSE [q |-> q, r |-> r, s |-> -q - r]

HexGrid_roundHexInt(hex, hs, q, r, s) ==
  HexGrid_roundHexFix(q, r, s,
                      FAbs(FSub(FromInt(q), hex.q)),
                      FAbs(FSub(FromInt(r), hex.r)),
                      FAbs(FSub(FromInt(s), hs)))

HexGrid_roundHexS(hex, hs) ==
  HexGrid_roundHexInt(hex, hs, FRoundInt(hex.q), FRoundInt(hex.r), FRoundInt(hs))

\* roundHex without the correction: q, r and s each rounded on its own
HexGrid_roundHex_Uncorrected(hex) ==
  [q |-> FRoundInt(hex.q), r |-> FRoundInt(hex.r),
   s |-> FRoundInt(IF FIsZero(hex.s) THEN FSub(FNeg(hex.q), hex.r) ELSE hex.s)]

\* hex is the fractional coordinate [q, r, s]; the s read back is hex.s, or
\* -hex.q - hex.r when hex.s is 0
HexGrid_roundHex(hex) ==
  HexGrid_roundHexS(hex, IF FIsZero(hex.s) THEN FSub(FNeg(hex.q), hex.r) ELSE hex.s)

HexGrid_fracHex(q, r) == [q |-> q, r |-> r, s |-> FSub(FNeg(q), r)]

\* a variant with the sign of the x term of r lost: 1/3 * x for -1/3 * x
HexGrid_pixelToAxial_Sign(size, x, y) ==
  HexGrid_roundHex(HexGrid_fracHex(
    FDiv(FMul(F2_3, x), size),
    FDiv(FAdd(FMul(FNeg(FNeg1_3), x), FMul(FSqrt3_3, y)), size)))

HexGrid_pixelToAxial(size, x, y) ==
  HexGrid_roundHex(HexGrid_fracHex(
    FDiv(FMul(F2_3, x), size),
    FDiv(FAdd(FMul(FNeg1_3, x), FMul(FSqrt3_3, y)), size)))

\* getNeighbors with the direction (1, -1) written as (1, 1)
HexGrid_getNeighbors_Diagonal(q, r) ==
  << Cell(q + 1, r), Cell(q + 1, r + 1), Cell(q, r - 1),
     Cell(q - 1, r), Cell(q - 1, r + 1), Cell(q, r + 1) >>

HexGrid_getNeighbors(q, r) ==
  << Cell(q + 1, r), Cell(q + 1, r - 1), Cell(q, r - 1),
     Cell(q - 1, r), Cell(q - 1, r + 1), Cell(q, r + 1) >>

HexGrid_inHex(size, dx, dy) ==
  /\ FLe(dx, FDiv(FMul(size, Sqrt3), FTwo))
  /\ FLe(dy, size)
  /\ FLe(FAdd(FMul(dx, Sqrt3), dy), FMul(size, Sqrt3))

HexGrid_pointInHex(size, x, y, hexX, hexY) ==
  HexGrid_inHex(size, FAbs(FSub(x, hexX)), FAbs(FSub(y, hexY)))

\* Math.cos(i * Math.PI / 3) and Math.sin(i * Math.PI / 3) for i = 0..5:
\* 1, 0.5000000000000001, -0.4999999999999998, -1, -0.5000000000000004,
\* 0.5000000000000001 and 0, 0.8660254037844386, 0.8660254037844387,
\* 1.2246467991473532e-16, -0.8660254037844384, -0.8660254037844386
HexGrid_cos ==
  << [neg |-> FALSE, man |-> <<0, 0, 0, 1024>>, exp |-> -52],
     [neg |-> FALSE, man |-> <<1, 0, 0, 1024>>, exp |-> -53],
     [neg |-> TRUE, man |-> <<16380, 16383, 16383, 2047>>, exp |-> -54],
     [neg |-> TRUE, man |-> <<0, 0, 0, 1024>>, exp |-> -52],
     [neg |-> TRUE, man |-> <<4, 0, 0, 1024>>, exp |-> -53],
     [neg |-> FALSE, man |-> <<1, 0, 0, 1024>>, exp |-> -53] >>

HexGrid_sin ==
  << FZero,
     [neg |-> FALSE, man |-> <<3242, 8545, 10158, 1773>>, exp |-> -53],
     [neg |-> FALSE, man |-> <<3243, 8545, 10158, 1773>>, exp |-> -53],
     [neg |-> FALSE, man |-> <<7175, 3153, 8803, 1129>>, exp |-> -105],
     [neg |-> TRUE, man |-> <<3240, 8545, 10158, 1773>>, exp |-> -53],
     [neg |-> TRUE, man |-> <<3242, 8545, 10158, 1773>>, exp |-> -53] >>

HexGrid_getHexVertices(size, centerX, centerY) ==
  [i \in 1..6 |-> Pt(FAdd(centerX, FMul(size, HexGrid_cos[i])),
                     FAdd(centerY, FMul(size, HexGrid_sin[i])))]

(***************************************************************************)
(* TriangleGrid (utils/triangleGrid.ts).                                   *)
(***************************************************************************)
\* the literals 1.5, 0.667 and 2.2
F1_5 == FLit(15, 10)

F0_667 == FLit(667, 1000)

F2_2 == FLit(22, 10)

\* triangleWidth = size * sqrt(3), triangleHeight = size * 1.5
TriangleGrid_axialToPixel(size, q, r) ==
  Pt(FMul(FMul(FromInt(q), FMul(size, Sqrt3)), FHalf),
     FMul(FMul(FromInt(r), FMul(size, F1_5)), F0_667))

TriangleGrid_pixelToAxial(size, x, y) ==
  Cell(FRoundInt(FDiv(FMul(x, FTwo), FMul(size, Sqrt3))),
       FRoundInt(FDiv(FMul(y, F1_5), FMul(size, F1_5))))

\* the triangle of half height hh and half width hw around tc, pointing up or
\* down
TriangleGrid_triangle(isUpward, tc, hh, hw) ==
  IF isUpward
  THEN << Pt(tc.x, FSub(tc.y, hh)),
          Pt(FSub(tc.x, hw), FAdd(tc.y, hh)),
          Pt(FAdd(tc.x, hw), FAdd(tc.y, hh)) >>
  ELSE << Pt(tc.x, FAdd(tc.y, hh)),
          Pt(FSub(tc.x, hw), FSub(tc.y, hh)),
          Pt(FAdd(tc.x, hw), FSub(tc.y, hh)) >>

\* c = pixelToAxial(centerX, centerY); height = size * 2.0, width = size * 2.2
TriangleGrid_verticesOf(size, c) ==
  TriangleGrid_triangle(JsRem(c.q + c.r, 2) = 0,
                        TriangleGrid_axialToPixel(size, c.q, c.r),
                        FMul(FMul(size, FTwo), FHalf),
                        FMul(FMul(size, F2_2), FHalf))

TriangleGrid_getCellVertices(size, centerX, centerY) ==
  TriangleGrid_verticesOf(size, TriangleGrid_pixelToAxial(size, centerX, centerY))

TriangleGrid_getNeighbors(q, r) ==
  << Cell(q - 1, r), Cell(q + 1, r), Cell(q, r - 1),
     Cell(q, r + 1), Cell(q - 1, r - 1), Cell(q + 1, r + 1) >>

FMin(a, b) == IF FLt(b, a) THEN b ELSE a

FMax(a, b) == IF FGt(b, a) THEN b ELSE a

FDot(ax, ay, bx, by) == FAdd(FMul(ax, bx), FMul(ay, by))

TriangleGrid_inBox(x, y, v) ==
  ~ \/ FLt(x, FMin(FMin(v[1].x, v[2].x), v[3].x))
    \/ FGt(x, FMax(FMax(v[1].x, v[2].x), v[3].x))
    \/ FLt(y, FMin(FMin(v[1].y, v[2].y), v[3].y))
    \/ FGt(y, FMax(FMax(v[1].y, v[2].y), v[3].y))

TriangleGrid_baryTest(u, w) ==
  FGe(u, FZero) /\ FGe(w, FZero) /\ FLe(FAdd(u, w), FOne)

TriangleGrid_baryUW(dot00, dot01, dot02, dot11, dot12, invDenom) ==
  TriangleGrid_baryTest(
    FMul(FSub(FMul(dot11, dot02), FMul(dot01, dot12)), invDenom),
    FMul(FSub(FMul(dot00, dot12), FMul(dot01, dot02)), invDenom))

TriangleGrid_baryDots(dot00, dot01, dot02, dot11, dot12) ==
  TriangleGrid_baryUW(dot00, dot01, dot02, dot11, dot12,
    FDiv(FOne, FSub(FMul(dot00, dot11), FMul(dot01, dot01))))

\* v0 = v[3] - v[1], v1 = v[2] - v[1], v2 = p - v[1]
TriangleGrid_baryVecs(v0x, v0y, v1x, v1y, v2x, v2y) ==
  TriangleGrid_baryDots(FDot(v0x, v0y, v0x, v0y), FDot(v0x, v0y, v1x, v1y),
                        FDot(v0x, v0y, v2x, v2y), FDot(v1x, v1y, v1x, v1y),
                        FDot(v1x, v1y, v2x, v2y))

TriangleGrid_inTriangle(x, y, v) ==
  IF ~TriangleGrid_inBox(x, y, v) THEN FALSE
  ELSE TriangleGrid_baryVecs(FSub(v[3].x, v[1].x), FSub(v[3].y, v[1].y),
                             FSub(v[2].x, v[1].x), FSub(v[2].y, v[1].y),
                             FSub(x, v[1].x), FSub(y, v[1].y))

TriangleGrid_pointInCell(size, x, y, cellX, cellY) ==
  TriangleGrid_inTriangle(x, y, TriangleGrid_getCellVertices(size, cellX, cellY))

(***************************************************************************)
(* The IGrid calls, resolved on the grid's class.  HexGrid has no          *)
(* pointInCell: its containment test is pointInHex.                        *)
(***************************************************************************)
Grid_axialToPixel(kind, size, q, r) ==
  CASE kind = "pixel"    -> PixelGrid_axialToPixel(size, q, r)
    [] kind = "hexagon"  -> HexGrid_axialToPixel(size, q, r)
    [] kind = "triangle" -> TriangleGrid_axialToPixel(size, q, r)

HexGrid_cell(h) == Cell(h.q, h.r)

Grid_pixelToAxial(kind, size, x, y) ==
  CASE kind = "pixel"    -> PixelGrid_pixelToAxial(size, x, y)
    [] kind = "hexagon"  -> HexGrid_cell(HexGrid_pixelToAxial(size, x, y))
    [] kind = "triangle" -> TriangleGrid_pixelToAxial(size, x, y)

Grid_pointInCell(kind, size, x, y, cellX, cellY) ==
  CASE kind = "pixel"    -> PixelGrid_pointInCell(size, x, y, cellX, cellY)
    [] kind = "hexagon"  -> HexGrid_pointInHex(size, x, y, cellX, cellY)
    [] kind = "triangle" -> TriangleGrid_pointInCell(size, x, y, cellX, cellY)

\* HexGrid has no getCellVertices either: its vertices are getHexVertices
Grid_getCellVertices(kind, size, centerX, centerY) ==
  CASE kind = "pixel"    -> PixelGrid_getCellVertices(size, centerX, centerY)
    [] kind = "hexagon"  -> HexGrid_getHexVertices(size, centerX, centerY)
    [] kind = "triangle" -> TriangleGrid_getCellVertices(size, centerX, centerY)

\* the centre of a cell
Grid_centre(kind, size, cell) == Grid_axialToPixel(kind, size, cell.q, cell.r)

\* the end of snapToGrid: snapped when the point is within the threshold of
\* it, else the point itself
Grid_snapWithin(x, y, snapped, threshold) ==
  IF FLe(Distance(x, y, snapped.x, snapped.y), threshold)
  THEN snapped ELSE Pt(x, y)

HexGrid_snapToGrid(size, x, y, threshold) ==
  Grid_snapWithin(x, y,
                  Grid_centre("hexagon", size, Grid_pixelToAxial("hexagon", size, x, y)),
                  threshold)

\* snapped.x += this.size / 2; snapped.y += this.size / 2
PixelGrid_snapped(size, snapped) ==
  Pt(FAdd(snapped.x, FDiv(size, FTwo)), FAdd(snapped.y, FDiv(size, FTwo)))

PixelGrid_snapToGrid(size, x, y, threshold) ==
  Grid_snapWithin(x, y,
                  PixelGrid_snapped(size,
                    Grid_centre("pixel", size, Grid_pixelToAxial("pixel", size, x, y))),
                  threshold)

\* if (threshold) { ... } return snapped: a threshold of 0 is falsy
TriangleGrid_snapIf(x, y, snapped, threshold) ==
  IF ~FIsZero(threshold) THEN Grid_snapWithin(x, y, snapped, threshold)
  ELSE snapped

TriangleGrid_snapToGrid(size, x, y, threshold) ==
  TriangleGrid_snapIf(x, y,
                      Grid_centre("triangle", size,
                                  Grid_pixelToAxial("triangle", size, x, y)),
                      threshold)

Grid_snapToGrid(kind, size, x, y, threshold) ==
  IF kind = "hexagon" THEN HexGrid_snapToGrid(size, x, y, threshold)
  ELSE IF kind = "pixel" THEN PixelGrid_snapToGrid(size, x, y, threshold)
  ELSE TriangleGrid_snapToGrid(size, x, y, threshold)

GridTypes == {"hexagon", "triangle", "pixel"}

(***************************************************************************)
(* Bounds of the geometry checks.  Cell coordinates are sampled from       *)
(* [-MaxCoord, MaxCoord]: both ends, the cells next to them and cells      *)
(* around the origin; pointer positions from a square of                   *)
(* (2 * MaxPoint + 1)^2 points spaced PointStep pixels around the origin.  *)
(***************************************************************************)
MaxCoord == 1000

MaxPoint == 3

PointStep == 5

CoordSamples == {-MaxCoord, 1 - MaxCoord, -3, 0, 1, MaxCoord - 1, MaxCoord}

PointSamples == {PointStep * i : i \in -MaxPoint..MaxPoint}

\* grid sizes as fractions <<num, den>>: 10, 20, 37.5 and 0.1
Sizes == {<<10, 1>>, <<20, 1>>, <<75, 2>>, <<1, 10>>}

SizeValue(sz) == FDiv(FromInt(sz[1]), FromInt(sz[2]))

(***************************************************************************)
(* TriangleGrid, the variant of part_003 that picks a slot by rounding and *)
(* confirms it with a containment test.  triHeight = size * (sqrt(3) / 2)  *)
(* and triWidth = size.                                                    *)
(***************************************************************************)
F1_3 == FDiv(FOne, FThree)

SlotTriangleGrid_triHeight(size) == FMul(size, FSqrt3_2)

SlotTriangleGrid_axialToPixel(size, q, r) ==
  Pt(FMul(FMul(FromInt(q), size), FHalf),
     FMul(FromInt(r), SlotTriangleGrid_triHeight(size)))

\* the candidate slot of pixelToAxial: q and r rounded separately
SlotTriangleGrid_candidate(size, x, y) ==
  Cell(FRoundInt(FDiv(x, FMul(size, FHalf))),
       FRoundInt(FDiv(y, SlotTriangleGrid_triHeight(size))))

SlotTriangleGrid_triangle(isUpward, tc, halfWidth, th) ==
  IF isUpward
  THEN << Pt(tc.x, FSub(tc.y, FMul(F2_3, th))),
          Pt(FSub(tc.x, halfWidth), FAdd(tc.y, FMul(F1_3, th))),
          Pt(FAdd(tc.x, halfWidth), FAdd(tc.y, FMul(F1_3, th))) >>
  ELSE << Pt(tc.x, FAdd(tc.y, FMul(F2_3, th))),
          Pt(FAdd(tc.x, halfWidth), FSub(tc.y, FMul(F1_3, th))),
          Pt(FSub(tc.x, halfWidth), FSub(tc.y, FMul(F1_3, th))) >>

\* the rest of getCellVertices once its pixelToAxial call has returned c
SlotTriangleGrid_verticesOf(size, c) ==
  SlotTriangleGrid_triangle(JsRem(c.q + c.r, 2) # 0,
                            SlotTriangleGrid_axialToPixel(size, c.q, c.r),
                            FDiv(size, FTwo),
                            SlotTriangleGrid_triHeight(size))

SlotTriangleGrid_getNeighbors(q, r) ==
  IF JsRem(q + r, 2) # 0
  THEN << Cell(q - 1, r), Cell(q + 1, r), Cell(q, r - 1) >>
  ELSE << Cell(q - 1, r), Cell(q + 1, r), Cell(q, r + 1) >>

FUnit(a) == FGe(a, FZero) /\ FLe(a, FOne)

SlotTriangleGrid_baryABC(a, b, c) == FUnit(a) /\ FUnit(b) /\ FUnit(c)

SlotTriangleGrid_baryAB(a, b) ==
  SlotTriangleGrid_baryABC(a, b, FSub(FSub(FOne, a), b))

SlotTriangleGrid_baryDen(x, y, v, denominator) ==
  IF FIsZero(denominator) THEN FALSE
  ELSE SlotTriangleGrid_baryAB(
         FDiv(FAdd(FMul(FSub(v[2].y, v[3].y), FSub(x, v[3].x)),
                   FMul(FSub(v[3].x, v[2].x), FSub(y, v[3].y))), denominator),
         FDiv(FAdd(FMul(FSub(v[3].y, v[1].y), FSub(x, v[3].x)),
                   FMul(FSub(v[1].x, v[3].x), FSub(y, v[3].y))), denominator))

\* the rest of pointInCell once its getCellVertices call has returned v
SlotTriangleGrid_inTriangle(x, y, v) ==
  IF Len(v) < 3 THEN FALSE
  ELSE SlotTriangleGrid_baryDen(x, y, v,
         FAdd(FMul(FSub(v[2].y, v[3].y), FSub(v[1].x, v[3].x)),
              FMul(FSub(v[3].x, v[2].x), FSub(v[1].y, v[3].y))))

(***************************************************************************)
(* The three methods call one another, so they are run on a call stack.    *)
(* A frame is a call in progress: fn is the method, pc the line it is at   *)
(* (the line of its next call, or the line after the call it is waiting    *)
(* for), (x, y) its first two arguments, (cx, cy) the cell centre          *)
(* (pointInCell's last two arguments, pixelToAxial's centered), (q, r)     *)
(* the candidate slot and k the index of the neighbour being tested.       *)
(***************************************************************************)
Frame(fn, x, y, cx, cy) ==
  [fn |-> fn, pc |-> "entry", x |-> x, y |-> y, cx |-> cx, cy |-> cy,
   q |-> 0, r |-> 0, k |-> 0]

\* what a call returned: a cell, a vertex list or a truth value
NoValue == [type |-> "none", cell |-> Cell(0, 0), vertices |-> <<>>, bool |-> FALSE]

CellValue(c) == [NoValue EXCEPT !.type = "cell", !.cell = c]

VerticesValue(v) == [NoValue EXCEPT !.type = "vertices", !.vertices = v]

BoolValue(b) == [NoValue EXCEPT !.type = "bool", !.bool = b]

\* the three things a frame can do next: call callee and wait at top, go on
\* at top, or return value
DoCall(top, callee) == [kind |-> "call", top |-> top, callee |-> callee, value |-> NoValue]

DoGoto(top) == [kind |-> "goto", top |-> top, callee |-> top, value |-> NoValue]

DoReturn(f, value) == [kind |-> "return", top |-> f, callee |-> f, value |-> value]

\* lines 25-32: the candidate slot c, its centre, and the call of
\* getCellVertices on that centre
SlotTriangleGrid_pixelToAxial_centered(f, c, centered) ==
  DoCall([f EXCEPT !.pc = "L35", !.q = c.q, !.r = c.r,
                   !.cx = centered.x, !.cy = centered.y],
         Frame("getCellVertices", centered.x, centered.y, FZero, FZero))

SlotTriangleGrid_pixelToAxial_entry(f, size, c) ==
  SlotTriangleGrid_pixelToAxial_centered(f, c,
    SlotTriangleGrid_axialToPixel(size, c.q, c.r))

\* lines 41-46: the kth neighbour's centre and the call of pointInCell on it,
\* or the fallback of line 49 after the last neighbour
SlotTriangleGrid_pixelToAxial_neighbor(f, size, neighbors) ==
  IF f.k > Len(neighbors) THEN DoReturn(f, CellValue(Cell(f.q, f.r)))
  ELSE DoCall([f EXCEPT !.pc = "L43"],
              Frame("pointInCell", f.x, f.y,
                    SlotTriangleGrid_axialToPixel(size, neighbors[f.k].q, neighbors[f.k].r).x,
                    SlotTriangleGrid_axialToPixel(size, neighbors[f.k].q, neighbors[f.k].r).y))

SlotTriangleGrid_pixelToAxial(f, ret, size) ==
  CASE f.pc = "entry" ->
         SlotTriangleGrid_pixelToAxial_entry(f, size,
           SlotTriangleGrid_candidate(size, f.x, f.y))
    [] f.pc = "L35" ->
         DoCall([f EXCEPT !.pc = "L36"], Frame("pointInCell", f.x, f.y, f.cx, f.cy))
    [] f.pc = "L36" ->
         IF ret.bool THEN DoReturn(f, CellValue(Cell(f.q, f.r)))
         ELSE DoGoto([f EXCEPT !.pc = "L41", !.k = 1])
    [] f.pc = "L41" ->
         SlotTriangleGrid_pixelToAxial_neighbor(f, size,
           SlotTriangleGrid_getNeighbors(f.q, f.r))
    [] f.pc = "L43" ->
         IF ret.bool
         THEN DoReturn(f, CellValue(SlotTriangleGrid_getNeighbors(f.q, f.r)[f.k]))
         ELSE DoGoto([f EXCEPT !.pc = "L41", !.k = @ + 1])

\* line 53 calls pixelToAxial on the centre; lines 54-74 build the vertices
SlotTriangleGrid_getCellVertices(f, ret, size) ==
  CASE f.pc = "entry" ->
         DoCall([f EXCEPT !.pc = "L54"], Frame("pixelToAxial", f.x, f.y, FZero, FZero))
    [] f.pc = "L54" ->
         DoReturn(f, VerticesValue(SlotTriangleGrid_verticesOf(size, ret.cell)))

\* line 88 calls getCellVertices on the cell centre; lines 89-102 test (x, y)
SlotTriangleGrid_pointInCell(f, ret, size) ==
  CASE f.pc = "entry" ->
         DoCall([f EXCEPT !.pc = "L89"], Frame("getCellVertices", f.cx, f.cy, FZero, FZero))
    [] f.pc = "L89" ->
         DoReturn(f, BoolValue(SlotTriangleGrid_inTriangle(f.x, f.y, ret.vertices)))

\* the next thing the frame f does, ret being what its last call returned
SlotTriangleGrid_exec(f, ret, size) ==
  CASE f.fn = "pixelToAxial"    -> SlotTriangleGrid_pixelToAxial(f, ret, size)
    [] f.fn = "getCellVertices" -> SlotTriangleGrid_getCellVertices(f, ret, size)
    [] f.fn = "pointInCell"     -> SlotTriangleGrid_pointInCell(f, ret, size)

\* the stack after the top frame did act
StackAfter(stack, act) ==
  CASE act.kind = "call" ->
         Append([stack EXCEPT ![Len(stack)] = act.top], act.callee)
    [] act.kind = "goto" -> [stack EXCEPT ![Len(stack)] = act.top]
    [] act.kind = "return" -> SubSeq(stack, 1, Len(stack) - 1)

(***************************************************************************)
(* getNeighbors of the TriangleGrid of part_002, which picks the triangle  *)
(* by its half of the slot; the neighbours are those of part_003.          *)
(***************************************************************************)
\* a variant that tests the parity with (q + r) % 2 === 1
ParityTriangleGrid_getNeighbors_PositiveOdd(q, r) ==
  IF JsRem(q + r, 2) = 1
  THEN << Cell(q - 1, r), Cell(q + 1, r), Cell(q, r - 1) >>
  ELSE << Cell(q - 1, r), Cell(q + 1, r), Cell(q, r + 1) >>

ParityTriangleGrid_getNeighbors(q, r) ==
  IF JsRem(q + r, 2) # 0
  THEN << Cell(q - 1, r), Cell(q + 1, r), Cell(q, r - 1) >>
  ELSE << Cell(q - 1, r), Cell(q + 1, r), Cell(q, r + 1) >>

\* getNeighbors of each grid class; "parityTriangle" is part_002's
NeighborKinds == {"hexagon", "pixel", "triangle", "parityTriangle"}

Class_getNeighbors(kind, q, r) ==
  CASE kind = "pixel"          -> PixelGrid_getNeighbors(q, r)
    [] kind = "hexagon"        -> HexGrid_getNeighbors(q, r)
    [] kind = "triangle"       -> TriangleGrid_getNeighbors(q, r)
    [] kind = "parityTriangle" -> ParityTriangleGrid_getNeighbors(q, r)

(***************************************************************************)
(* Viewport culling (utils/performance.ts) and the canvas transform of     *)
(* draw (part_012): screen = (width / 2 + panX, height / 2 + panY) +       *)
(* zoom * world.                                                           *)
(***************************************************************************)
\* Math.ceil(x) as an integer
FCeil(x) == -FFloor(FNeg(x))

isCellInViewport(cellQ, cellR, viewportBounds) ==
  /\ cellQ >= viewportBounds.minQ
  /\ cellQ <= viewportBounds.maxQ
  /\ cellR >= viewportBounds.minR
  /\ cellR <= viewportBounds.maxR

ViewportBoundsOf(centerQ, centerR, radiusQ, radiusR) ==
  [minQ |-> FFloor(FSub(centerQ, radiusQ)) - 1,
   maxQ |-> FCeil(FAdd(centerQ, radiusQ)) + 1,
   minR |-> FFloor(FSub(centerR, radiusR)) - 1,
   maxR |-> FCeil(FAdd(centerR, radiusR)) + 1]

ViewportBoundsHalf(halfWidth, halfHeight, zoom, panX, panY, gridSize) ==
  ViewportBoundsOf(
    FDiv(FNeg(panX), FMul(FMul(gridSize, F1_5), zoom)),
    FDiv(FAdd(FNeg(panY), FDiv(FMul(panX, Sqrt3), FThree)),
         FMul(FMul(gridSize, Sqrt3), zoom)),
    FDiv(halfWidth, FMul(gridSize, F1_5)),
    FDiv(halfHeight, FMul(gridSize, Sqrt3)))

calculateViewportBounds(canvasWidth, canvasHeight, zoom, panX, panY, gridSize) ==
  ViewportBoundsHalf(FDiv(canvasWidth, FMul(FTwo, zoom)),
                     FDiv(canvasHeight, FMul(FTwo, zoom)),
                     zoom, panX, panY, gridSize)

\* where the canvas transform of draw puts the world point p
Canvas_screen(width, height, zoom, panX, panY, p) ==
  Pt(FAdd(FAdd(FDiv(width, FTwo), panX), FMul(zoom, p.x)),
     FAdd(FAdd(FDiv(height, FTwo), panY), FMul(zoom, p.y)))

(***************************************************************************)
(* GridManager (part_000, second file).  The constructor registers a       *)
(* HexGrid under 'hexagon' and a TriangleGrid under 'triangle' and nothing *)
(* else; getGrid throws for a type that is not registered.  A result is    *)
(* [grid, error]: the grid's type, or "none" with the thrown error.        *)
(***************************************************************************)
\* no error thrown; an error is the words of its message
NoError == <<>>

GridManager_constructor == {"hexagon", "triangle"}

\* a variant that falls back to the hexagon grid for a type that is not
\* registered
GridManager_getGrid_Fallback(grids, type) ==
  [grid |-> IF type \in grids THEN type ELSE "hexagon", error |-> NoError]

GridManager_getGrid(grids, type) ==
  IF type \in grids
  THEN [grid |-> type, error |-> NoError]
  ELSE [grid |-> "none", error |-> <<"Grid type", type, "not implemented">>]

GridManager_getGridForLayer(grids, layerGridType, globalGridType) ==
  IF layerGridType = "pixel"
  THEN GridManager_getGrid(grids, "pixel")
  ELSE GridManager_getGrid(grids, globalGridType)

\* gridType || this.currentGridType, for a gridType that may be omitted
GridManager_requested(gridType, currentGridType) ==
  IF gridType = "undefined" THEN currentGridType ELSE gridType

\* setSize with the clamp of the store's setGridSize to at most 50
Grid_setSize_Clamped(size) == IF FGt(size, FromInt(50)) THEN FromInt(50) ELSE size

\* setSize of a grid class assigns the size as it is given
Grid_setSize(size) == size

\* GridManager.setSize: grids.forEach(grid => grid.setSize(size)); sizes maps
\* each registered type to its instance's size
GridManager_setSize(sizes, size) == [t \in DOMAIN sizes |-> Grid_setSize(size)]

\* GridManager.getSize: this.getGrid().getSize(), as [size, error]
GridManager_sizeOf(sizes, result) ==
  [size |-> IF result.error = NoError THEN sizes[result.grid] ELSE 0,
   error |-> result.error]

GridManager_getSize(sizes, currentGridType) ==
  GridManager_sizeOf(sizes, GridManager_getGrid(DOMAIN sizes, currentGridType))

Grid_getNeighbors(kind, q, r) ==
  CASE kind = "pixel"    -> PixelGrid_getNeighbors(q, r)
    [] kind = "hexagon"  -> HexGrid_getNeighbors(q, r)
    [] kind = "triangle" -> TriangleGrid_getNeighbors(q, r)

(***************************************************************************)
(* The canvas store (services/canvasStore.ts).  A layer's cells map a cell *)
(* id to the cell's colour; the id `${q},${r}` is the pair <<q, r>>.       *)
(***************************************************************************)
Null == "null"

Undefined == "undefined"

\* the activeLayerId '' of the initial state
NoLayer == 0

CellId(c) == <<c.q, c.r>>

EmptyCells == [k \in {} |-> Null]

\* cell?.color || null
CellColor(cells, id) == IF id \in DOMAIN cells THEN cells[id] ELSE Null

SetCell(cells, id, color) ==
  [k \in DOMAIN cells \cup {id} |-> IF k = id THEN color ELSE cells[k]]

DeleteCell(cells, id) == [k \in DOMAIN cells \ {id} |-> cells[k]]

\* a layer name, word by word: 'Shape Layer 1', 'Pixel Layer 2'
LayerName(gridType, number) ==
  <<IF gridType = "pixel" THEN "Pixel" ELSE "Shape", "Layer", ToString(number)>>

createLayer(id, gridType) ==
  [id |-> id, name |-> LayerName(gridType, id), visible |-> TRUE,
   gridType |-> gridType, locked |-> FALSE, cells |-> EmptyCells]

\* name.replace('Shape', 'Pixel'): the first occurrence is replaced
RECURSIVE NameReplace(_, _, _)
NameReplace(name, word, by) ==
  IF name = <<>> THEN name
  ELSE IF Head(name) = word THEN <<by>> \o Tail(name)
  ELSE <<Head(name)>> \o NameReplace(Tail(name), word, by)

NameIncludes(name, word) == \E i \in 1..Len(name) : name[i] = word

\* the name rasterizeLayer gives a layer
RasterizedName(name) ==
  IF NameIncludes(NameReplace(name, "Shape", "Pixel"), "(Rasterized)")
  THEN NameReplace(name, "Shape", "Pixel")
  ELSE Append(NameReplace(name, "Shape", "Pixel"), "(Rasterized)")

HasLayer(ls, id) == \E i \in 1..Len(ls) : ls[i].id = id

\* layers.find(l => l.id === id), as an index
FindLayer(ls, id) ==
  CHOOSE i \in 1..Len(ls) : ls[i].id = id /\ \A j \in 1..(i - 1) : ls[j].id # id

maxHistorySize == 100

Command(type, id, layerId, newColor, previousColor, wasEmpty, commands) ==
  [type |-> type, cellId |-> id, layerId |-> layerId, newColor |-> newColor,
   previousColor |-> previousColor, wasEmpty |-> wasEmpty, commands |-> commands]

\* the redo tail is dropped, the command pushed, and the oldest command
\* dropped when the list outgrows maxHistorySize
HistoryKept(h, idx) == IF idx < Len(h) - 1 THEN SubSeq(h, 1, idx + 1) ELSE h

HistoryCapped(h) == IF Len(h) > maxHistorySize THEN Tail(h) ELSE h

\* a push that never drops the oldest command
PushHistory_Unbounded(h, idx, command) == Append(HistoryKept(h, idx), command)

PushHistory(h, idx, command) == HistoryCapped(Append(HistoryKept(h, idx), command))

(***************************************************************************)
(* floodFill.  The call in progress is the record                          *)
(*   [pc, layerId, grid, start, newColor, targetColor, visited, toProcess, *)
(*    changes, processedCells, iterations, warned]                         *)
(* pc is "loop" while the while loop runs and "returned" once floodFill    *)
(* has returned changes to fillArea; iterations counts the loop's          *)
(* iterations and warned records the console.warn of the cap.              *)
(***************************************************************************)
MAX_CELLS == 12

FillIdle ==
  [pc |-> "idle", layerId |-> NoLayer, grid |-> "none", start |-> <<0, 0>>,
   newColor |-> Null, targetColor |-> Null, visited |-> {}, toProcess |-> <<>>,
   changes |-> <<>>, processedCells |-> 0, iterations |-> 0, warned |-> FALSE]

\* a variant without the early return for a start cell that already has the
\* new colour
FloodFill_enter_NoEarlyReturn(layerId, grid, startQ, startR, newColor, targetColor) ==
  [FillIdle EXCEPT !.pc = "loop", !.layerId = layerId, !.grid = grid,
                   !.start = <<startQ, startR>>, !.newColor = newColor,
                   !.targetColor = targetColor,
                   !.toProcess = <<Cell(startQ, startR)>>]

\* lines 81-92: the early return, or the state the loop starts in
FloodFill_enter(layerId, grid, startQ, startR, newColor, targetColor) ==
  IF targetColor = newColor
  THEN [FillIdle EXCEPT !.pc = "returned", !.layerId = layerId, !.grid = grid,
                        !.start = <<startQ, startR>>, !.newColor = newColor,
                        !.targetColor = targetColor]
  ELSE [FillIdle EXCEPT !.pc = "loop", !.layerId = layerId, !.grid = grid,
                        !.start = <<startQ, startR>>, !.newColor = newColor,
                        !.targetColor = targetColor,
                        !.toProcess = <<Cell(startQ, startR)>>]

FloodFill_begin(layer, grid, startQ, startR, newColor) ==
  FloodFill_enter(layer.id, grid, startQ, startR, newColor,
                  CellColor(layer.cells, <<startQ, startR>>))

\* a variant of the loop condition without the cap
FloodFill_looping_NoCap(f) == f.toProcess # <<>>

\* the condition of the while loop
FloodFill_looping(f) == f.toProcess # <<>> /\ f.processedCells < MAX_CELLS

\* FloodFill_visit that leaves out the first neighbour of every cell
FloodFill_visit_SkipsNeighbour(f, cells, current) ==
  IF CellColor(cells, CellId(current)) = f.targetColor
  THEN [f EXCEPT !.visited = @ \cup {CellId(current)},
                 !.processedCells = @ + 1,
                 !.iterations = @ + 1,
                 !.changes = Append(@, [q |-> current.q, r |-> current.r,
                                        oldColor |-> CellColor(cells, CellId(current))]),
                 !.toProcess = Tail(@) \o
                    SelectSeq(Tail(Grid_getNeighbors(f.grid, current.q, current.r)),
                              LAMBDA n : CellId(n) \notin f.visited \cup {CellId(current)})]
  ELSE [f EXCEPT !.visited = @ \cup {CellId(current)},
                 !.processedCells = @ + 1,
                 !.iterations = @ + 1,
                 !.toProcess = Tail(@)]

\* lines 100-119: current is new; it is marked and counted, and when its
\* colour is the target colour it is recorded and its neighbours that are
\* not visited are queued
FloodFill_visit(f, cells, current) ==
  IF CellColor(cells, CellId(current)) = f.targetColor
  THEN [f EXCEPT !.visited = @ \cup {CellId(current)},
                 !.processedCells = @ + 1,
                 !.iterations = @ + 1,
                 !.changes = Append(@, [q |-> current.q, r |-> current.r,
                                        oldColor |-> CellColor(cells, CellId(current))]),
                 !.toProcess = Tail(@) \o
                    SelectSeq(Grid_getNeighbors(f.grid, current.q, current.r),
                              LAMBDA n : CellId(n) \notin f.visited \cup {CellId(current)})]
  ELSE [f EXCEPT !.visited = @ \cup {CellId(current)},
                 !.processedCells = @ + 1,
                 !.iterations = @ + 1,
                 !.toProcess = Tail(@)]

\* one iteration, lines 95-119: the head of the queue is taken and skipped
\* when it was visited before
FloodFill_iterate(f, cells) ==
  IF CellId(Head(f.toProcess)) \in f.visited
  THEN [f EXCEPT !.toProcess = Tail(@), !.iterations = @ + 1]
  ELSE FloodFill_visit(f, cells, Head(f.toProcess))

\* lines 122-126: the warning and the return
FloodFill_return(f) ==
  [f EXCEPT !.pc = "returned", !.warned = f.processedCells >= MAX_CELLS]

ChangeIds(changes) == {CellId(changes[i]) : i \in 1..Len(changes)}

\* fillArea's commands, one paint command per change
FillCommands(changes, layerId, color) ==
  [i \in 1..Len(changes) |->
     Command("paint", CellId(changes[i]), layerId, color, changes[i].oldColor,
             changes[i].oldColor = Null, <<>>)]

\* every command's cell set to the new colour
FillCells(cells, changes, color) ==
  [k \in DOMAIN cells \cup ChangeIds(changes) |->
     IF k \in ChangeIds(changes) THEN color ELSE cells[k]]

(***************************************************************************)
(* Bounds of the store: the cells and colours the pointer handlers are     *)
(* called with, the documents imported, the number of layers and the       *)
(* number of commands in the history.  MAX_CELLS above is floodFill's cap, *)
(* 5000 in the source, scaled down.  MaxStack is the depth at which a call *)
(* overflows the call stack.                                               *)
(***************************************************************************)
MaxLayers == 2

MaxHistory == 1

MaxStack == 12

Window == {<<0, 0>>, <<1, 0>>, <<3, 0>>}

Colours == {"red", "blue"}

\* the cell maps of imported documents
Documents ==
  UNION {[D -> Colours] : D \in SUBSET Window}

(***************************************************************************)
(* Bounds of the throttle: the delay in steps of the clock (8 ms in the    *)
(* Canvas component), the last instant and the number of calls.            *)
(***************************************************************************)
ThrottleDelay == 2

MaxTime == 9

MaxCalls == 3

(***************************************************************************)
(* State.                                                                  *)
(***************************************************************************)
VARIABLES
  gOp,     \* the run: "roundTrip", "centre" or "hitTest"; "idle" when none
  gKind,   \* the grid's type
  gSize,   \* the grid's size, an element of Sizes
  gIn,     \* the run's input <<a, b>>: a cell (q, r) or a pointer position (x, y)
  gOut,    \* [step, pt, cell, inside, vertices, hex]: calls made so far and their results
  tSize,   \* the size of the part_003 grid
  tStack,  \* its call stack, the frame of the running method last
  tRet,    \* what the last call to return returned
  tStatus, \* "running", "returned" or "RangeError"; "idle" when no call runs
  nKind,   \* the class whose getNeighbors is called
  nCell,   \* the cell A = <<q, r>> it is first called on
  nOut,    \* getNeighbors(A), <<>> before the call
  nBack,   \* getNeighbors(B) for the neighbours B of A asked so far, in order
  mSizes,   \* a GridManager's grids: registered type -> size of the instance
  mCurrent, \* its currentGridType
  mPixel,   \* the size of a PixelGrid, which no manager holds
  mCall,    \* the last call on them: [op, arg, grid, size, error]
  vView,    \* the canvas [width, height, zoom, panX, panY, gridSize]
  vKind,    \* the grid type of the layer drawn
  vCell,    \* the cell <<q, r>> of that layer
  vOut,     \* [step, bounds, inViewport, screen]
  sKind,    \* the grid snapToGrid is called on
  sSize,    \* its size
  sIn,      \* the call's <<x, y, threshold>>
  sOut,     \* [step, result, nearest, distance]
  zKind,    \* the grid that is resized
  zSize,    \* its size
  zCell,    \* the cell <<q, r>> asked for
  zOut,     \* [step, factor, before, after]
  log,             \* the last two store calls of an editing session: [op, before]
  clock,           \* Date.now(), in steps of the clock
  lastExecTime,    \* throttle's lastExecTime
  timeoutId,       \* throttle's pending timer: [armed, due, args]
  invoked,         \* the arguments func was invoked with, in order
  callCount,       \* the number of calls of the throttled function so far
  layers,          \* the store's layers [id, name, visible, gridType, locked, cells]
  activeLayerId,
  globalGridType,
  history,
  historyIndex,
  fill,            \* the floodFill call in progress
  gridCall,        \* the getGridForLayer call of the last fillArea
  gridSize,
  isPainting,
  currentStroke,   \* [command, cells], cells in the order they were added
  canvas,          \* what the Canvas component's last render saw: [size, isPainting]
  pointer          \* the grid size of the last pointer position converted

geomVars == <<gOp, gKind, gSize, gIn, gOut>>

triVars == <<tSize, tStack, tRet, tStatus>>

storeVars == <<layers, activeLayerId, globalGridType, history, historyIndex, fill, gridCall>>

sessionVars == <<gridSize, isPainting, currentStroke, canvas, pointer>>

nbrVars == <<nKind, nCell, nOut, nBack>>

managerVars == <<mSizes, mCurrent, mPixel, mCall>>

viewVars == <<vView, vKind, vCell, vOut>>

snapVars == <<sKind, sSize, sIn, sOut>>

throttleVars == <<clock, lastExecTime, timeoutId, invoked, callCount>>

editVars == <<log>>

resizeVars == <<zKind, zSize, zCell, zOut>>

vars ==
  <<geomVars, triVars, storeVars, sessionVars, nbrVars, managerVars,
    viewVars, snapVars, resizeVars, editVars, throttleVars>>

\* the variables a part of the model leaves alone
notGeom ==
  <<triVars, storeVars, sessionVars, nbrVars, managerVars, viewVars,
    snapVars, resizeVars, editVars, throttleVars>>

notTri ==
  <<geomVars, storeVars, sessionVars, nbrVars, managerVars, viewVars,
    snapVars, resizeVars, editVars, throttleVars>>

\* all but the store's document
notStore ==
  <<sessionVars, geomVars, triVars, nbrVars, managerVars, viewVars, snapVars,
    resizeVars, editVars, throttleVars>>

\* all but the store and the Canvas component
notSession ==
  <<geomVars, triVars, nbrVars, managerVars, viewVars, snapVars, resizeVars,
    editVars, throttleVars>>

notNbr ==
  <<geomVars, triVars, storeVars, sessionVars, managerVars, viewVars,
    snapVars, resizeVars, editVars, throttleVars>>

notManager ==
  <<geomVars, triVars, storeVars, sessionVars, nbrVars, viewVars, snapVars,
    resizeVars, editVars, throttleVars>>

notView ==
  <<geomVars, triVars, storeVars, sessionVars, nbrVars, managerVars,
    snapVars, resizeVars, editVars, throttleVars>>

notSnap ==
  <<geomVars, triVars, storeVars, sessionVars, nbrVars, managerVars,
    viewVars, resizeVars, editVars, throttleVars>>

notThrottle ==
  <<geomVars, triVars, storeVars, sessionVars, nbrVars, managerVars,
    viewVars, snapVars, resizeVars, editVars>>

notEdit ==
  <<geomVars, triVars, storeVars, sessionVars, nbrVars, managerVars,
    viewVars, snapVars, resizeVars, throttleVars>>

notResize ==
  <<geomVars, triVars, storeVars, sessionVars, nbrVars, managerVars,
    viewVars, snapVars, editVars, throttleVars>>

GeomStart(in) ==
  [step |-> 0, pt |-> Pt(FromInt(in[1]), FromInt(in[2])),
   cell |-> Cell(in[1], in[2]), inside |-> FALSE, vertices |-> <<>>,
   hex |-> [q |-> 0, r |-> 0, s |-> 0]]

GeomIdle ==
  /\ gOp = "idle"
  /\ gKind = "hexagon"
  /\ gSize = <<20, 1>>
  /\ gIn = <<0, 0>>
  /\ gOut = GeomStart(gIn)

NbrIdle ==
  /\ nKind = "hexagon"
  /\ nCell = <<0, 0>>
  /\ nOut = <<>>
  /\ nBack = <<>>

ManagerCall(op, arg, grid, size, error) ==
  [op |-> op, arg |-> arg, grid |-> grid, size |-> size, error |-> error]

\* new GridManager(20) and new PixelGrid(20), nothing called yet
ManagerIdle ==
  /\ mSizes = [t \in GridManager_constructor |-> 20]
  /\ mCurrent = "hexagon"
  /\ mPixel = 20
  /\ mCall = ManagerCall("none", "none", "none", 0, NoError)

ViewStart ==
  [step |-> 0, bounds |-> [minQ |-> 0, maxQ |-> 0, minR |-> 0, maxR |-> 0],
   inViewport |-> FALSE, screen |-> Pt(FZero, FZero)]

ViewIdle ==
  /\ vView = [width |-> 800, height |-> 600, zoom |-> <<1, 1>>,
              panX |-> 0, panY |-> 0, gridSize |-> 20]
  /\ vKind = "none"
  /\ vCell = <<0, 0>>
  /\ vOut = ViewStart

SnapStart ==
  [step |-> 0, result |-> Pt(FZero, FZero), nearest |-> Pt(FZero, FZero),
   distance |-> FZero]

SnapIdle ==
  /\ sKind = "none"
  /\ sSize = <<20, 1>>
  /\ sIn = <<0, 0, 0>>
  /\ sOut = SnapStart

ResizeStart ==
  [step |-> 0, factor |-> 1, before |-> Pt(FZero, FZero), after |-> Pt(FZero, FZero)]

ResizeIdle ==
  /\ zKind = "none"
  /\ zSize = FromInt(20)
  /\ zCell = <<0, 0>>
  /\ zOut = ResizeStart

EditIdle == log = <<>>

\* no timer is set
NoTimer == [armed |-> FALSE, due |-> 0, args |-> 0]

\* the closure throttle returns, before its first call: lastExecTime is 0 and
\* the clock is far beyond the delay
ThrottleIdle ==
  /\ clock = ThrottleDelay + 1
  /\ lastExecTime = 0
  /\ timeoutId = NoTimer
  /\ invoked = <<>>
  /\ callCount = 0

TriIdle ==
  /\ tSize = <<20, 1>>
  /\ tStack = <<>>
  /\ tRet = NoValue
  /\ tStatus = "idle"

NoCall == [layerGridType |-> "none", globalGridType |-> "none",
           grid |-> "none", error |-> NoError]

\* the store's initial state, lines 132-150
\* currentStroke: null
NoStroke == [command |-> "none", cells |-> <<>>]

\* no pointer position has been converted yet
NoPointer == [size |-> 0]

StoreInit ==
  /\ layers = <<createLayer(1, "hexagon")>>
  /\ activeLayerId = NoLayer
  /\ globalGridType = "hexagon"
  /\ history = <<>>
  /\ historyIndex = -1
  /\ fill = FillIdle
  /\ gridCall = NoCall
  /\ gridSize = 20
  /\ isPainting = FALSE
  /\ currentStroke = NoStroke
  /\ canvas = [size |-> 20, isPainting |-> FALSE]
  /\ pointer = NoPointer

\* the parts of the model a specification does not run stay as they start
RestOfGeom ==
  TriIdle /\ StoreInit /\ NbrIdle /\ ManagerIdle /\ ViewIdle /\ SnapIdle /\ ResizeIdle /\ EditIdle /\ ThrottleIdle

RestOfTri ==
  GeomIdle /\ StoreInit /\ NbrIdle /\ ManagerIdle /\ ViewIdle /\ SnapIdle /\ ResizeIdle /\ EditIdle /\ ThrottleIdle

RestOfStore ==
  GeomIdle /\ TriIdle /\ NbrIdle /\ ManagerIdle /\ ViewIdle /\ SnapIdle /\ ResizeIdle /\ EditIdle /\ ThrottleIdle

RestOfNbr ==
  GeomIdle /\ TriIdle /\ StoreInit /\ ManagerIdle /\ ViewIdle /\ SnapIdle /\ ResizeIdle /\ EditIdle /\ ThrottleIdle

RestOfManager ==
  GeomIdle /\ TriIdle /\ StoreInit /\ NbrIdle /\ ViewIdle /\ SnapIdle /\ ResizeIdle /\ EditIdle /\ ThrottleIdle

RestOfView ==
  GeomIdle /\ TriIdle /\ StoreInit /\ NbrIdle /\ ManagerIdle /\ SnapIdle /\ ResizeIdle /\ EditIdle /\ ThrottleIdle

RestOfSnap ==
  GeomIdle /\ TriIdle /\ StoreInit /\ NbrIdle /\ ManagerIdle /\ ViewIdle /\ ResizeIdle /\ EditIdle /\ ThrottleIdle

RestOfThrottle ==
  GeomIdle /\ TriIdle /\ StoreInit /\ NbrIdle /\ ManagerIdle /\ ViewIdle /\ ResizeIdle /\ EditIdle /\ SnapIdle

RestOfEdit ==
  GeomIdle /\ TriIdle /\ StoreInit /\ NbrIdle /\ ManagerIdle /\ ViewIdle /\ ResizeIdle /\ SnapIdle /\ ThrottleIdle

RestOfResize ==
  GeomIdle /\ TriIdle /\ StoreInit /\ NbrIdle /\ ManagerIdle /\ ViewIdle /\ SnapIdle /\ EditIdle /\ ThrottleIdle

(***************************************************************************)
(* The coordinate calls of one grid, one call per step.  A run is one of   *)
(*   roundTrip: pixelToAxial(axialToPixel(q, r))                           *)
(*   centre:    c = axialToPixel(q, r); pointInCell(c, c)                  *)
(*   hitTest:   cell = pixelToAxial(x, y); c = axialToPixel(cell);         *)
(*              pointInCell(x, y, c)                                       *)
(***************************************************************************)
GeomInit ==
  /\ gOp \in {"roundTrip", "centre", "hitTest", "vertices"}
  /\ gKind \in GridTypes
  /\ gSize \in Sizes
  /\ gIn \in (IF gOp = "hitTest" THEN PointSamples \X PointSamples
              ELSE CoordSamples \X CoordSamples)
  /\ gOut = GeomStart(gIn)
  /\ RestOfGeom

\* the number of calls a run makes
GeomSteps(op) ==
  IF op = "hitTest" THEN 3
  ELSE IF op = "idle" THEN 0
  ELSE IF op = "vertices" THEN 2 + Len(gOut.vertices)
  ELSE 2

GeomDone == gOp # "idle" /\ gOut.step = GeomSteps(gOp)

\* grid.axialToPixel(cell.q, cell.r)
AxialToPixel ==
  /\ \/ gOp \in {"roundTrip", "centre", "vertices"} /\ gOut.step = 0
     \/ gOp = "hitTest" /\ gOut.step = 1
  /\ gOut' = [gOut EXCEPT !.step = @ + 1,
                          !.pt = Grid_axialToPixel(gKind, SizeValue(gSize),
                                                   gOut.cell.q, gOut.cell.r)]
  /\ UNCHANGED <<gOp, gKind, gSize, gIn, notGeom>>

\* grid.pixelToAxial(pt.x, pt.y)
PixelToAxial ==
  /\ \/ gOp = "roundTrip" /\ gOut.step = 1
     \/ gOp = "hitTest" /\ gOut.step = 0
  /\ gOut' = [gOut EXCEPT !.step = @ + 1,
                          !.cell = Grid_pixelToAxial(gKind, SizeValue(gSize),
                                                     gOut.pt.x, gOut.pt.y),
                          !.hex = IF gKind = "hexagon"
                                  THEN HexGrid_pixelToAxial(SizeValue(gSize),
                                                            gOut.pt.x, gOut.pt.y)
                                  ELSE @]
  /\ UNCHANGED <<gOp, gKind, gSize, gIn, notGeom>>

\* grid.getCellVertices(pt.x, pt.y)
GetCellVertices ==
  /\ gOp = "vertices" /\ gOut.step = 1
  /\ gOut' = [gOut EXCEPT !.step = @ + 1,
                          !.vertices = Grid_getCellVertices(gKind, SizeValue(gSize),
                                                            gOut.pt.x, gOut.pt.y)]
  /\ UNCHANGED <<gOp, gKind, gSize, gIn, notGeom>>

\* the point a run tests next: the pointer position of a hit test, the
\* cell's own centre pt of a centre test, the next vertex of a vertices run
GeomPoint ==
  IF gOp = "hitTest" THEN Pt(FromInt(gIn[1]), FromInt(gIn[2]))
  ELSE IF gOp = "vertices" THEN gOut.vertices[gOut.step - 1]
  ELSE gOut.pt

\* grid.pointInCell(x, y, pt.x, pt.y) for the point (x, y) tested next
PointInCell ==
  /\ \/ gOp = "centre" /\ gOut.step = 1
     \/ gOp = "hitTest" /\ gOut.step = 2
     \/ gOp = "vertices" /\ gOut.step >= 2 /\ gOut.step < 2 + Len(gOut.vertices)
  /\ gOut' = [gOut EXCEPT !.step = @ + 1,
                          !.inside = Grid_pointInCell(gKind, SizeValue(gSize),
                                                      GeomPoint.x, GeomPoint.y,
                                                      gOut.pt.x, gOut.pt.y)]
  /\ UNCHANGED <<gOp, gKind, gSize, gIn, notGeom>>

GeomNext == AxialToPixel \/ PixelToAxial \/ GetCellVertices \/ PointInCell

SpecGeom == GeomInit /\ [][GeomNext]_vars

(***************************************************************************)
(* One call of a method of the part_003 grid, run on the call stack.       *)
(***************************************************************************)
TriInit ==
  /\ tSize = <<20, 1>>
  /\ \E fn \in {"pixelToAxial", "getCellVertices", "pointInCell"} :
       \E x \in PointSamples, y \in PointSamples :
         tStack = <<Frame(fn, FromInt(x), FromInt(y), FZero, FZero)>>
  /\ tRet = NoValue
  /\ tStatus = "running"
  /\ RestOfTri

\* what the running frame does next
TriAct == SlotTriangleGrid_exec(tStack[Len(tStack)], tRet, SizeValue(tSize))

\* the running frame goes on to its next call or return.  The call finishes
\* when the last frame returns.
TriStep ==
  /\ tStatus = "running"
  /\ TriAct.kind = "call" => Len(tStack) < MaxStack
  /\ tStack' = StackAfter(tStack, TriAct)
  /\ tRet' = IF TriAct.kind = "return" THEN TriAct.value ELSE tRet
  /\ tStatus' = IF tStack' = <<>> THEN "returned" ELSE "running"
  /\ UNCHANGED <<tSize, notTri>>

\* a call with the stack full: the engine throws RangeError (Maximum call
\* stack size exceeded), which no method catches
TriStackOverflow ==
  /\ tStatus = "running"
  /\ TriAct.kind = "call"
  /\ Len(tStack) = MaxStack
  /\ tStack' = <<>>
  /\ tStatus' = "RangeError"
  /\ UNCHANGED <<tSize, tRet, notTri>>

TriNext == TriStep \/ TriStackOverflow

SpecTri == TriInit /\ [][TriNext]_vars

(***************************************************************************)
(* The store's handlers.  A handler runs to its end before the next one    *)
(* starts: while floodFill runs (fill.pc # "idle") no other handler does.  *)
(***************************************************************************)
Init == StoreInit /\ RestOfStore

ActiveLayer == layers[FindLayer(layers, activeLayerId)]

LayerCells(id) == layers[FindLayer(layers, id)].cells

\* the active layer can be edited: it exists and is not locked
Editable == HasLayer(layers, activeLayerId) /\ ~ActiveLayer.locked

Idle == fill.pc = "idle"

\* the setTimeout callback of lines 412-417
ActivateFirstLayer ==
  /\ Idle
  /\ Len(layers) > 0 /\ activeLayerId = NoLayer
  /\ activeLayerId' = layers[1].id
  /\ gridCall' = NoCall
  /\ UNCHANGED <<layers, globalGridType, history, historyIndex, fill, notStore>>

setActiveLayer(layerId) ==
  /\ Idle
  /\ activeLayerId' = layerId
  /\ gridCall' = NoCall
  /\ UNCHANGED <<layers, globalGridType, history, historyIndex, fill, notStore>>

addPixelLayer ==
  /\ Idle
  /\ Len(layers) < MaxLayers
  /\ layers' = Append(layers, createLayer(Len(layers) + 1, "pixel"))
  /\ activeLayerId' = Len(layers) + 1
  /\ gridCall' = NoCall
  /\ UNCHANGED <<globalGridType, history, historyIndex, fill, notStore>>

setGlobalGridType(gridType) ==
  /\ Idle
  /\ globalGridType' = gridType
  /\ gridCall' = NoCall
  /\ UNCHANGED <<layers, activeLayerId, history, historyIndex, fill, notStore>>

\* rasterizeLayer without the early return for a pixel layer, which it turns
\* back into a shape layer of the global type
rasterizeLayer_Toggle(layerId) ==
  /\ Idle
  /\ HasLayer(layers, layerId)
  /\ layers' = [layers EXCEPT ![FindLayer(layers, layerId)].gridType =
                                 IF @ = "pixel" THEN "hexagon" ELSE "pixel",
                              ![FindLayer(layers, layerId)].name = RasterizedName(@)]
  /\ gridCall' = NoCall
  /\ UNCHANGED <<activeLayerId, globalGridType, history, historyIndex, fill, notStore>>

rasterizeLayer(layerId) ==
  /\ Idle
  /\ HasLayer(layers, layerId)
  /\ layers[FindLayer(layers, layerId)].gridType # "pixel"
  /\ layers' = [layers EXCEPT ![FindLayer(layers, layerId)].gridType = "pixel",
                              ![FindLayer(layers, layerId)].name = RasterizedName(@)]
  /\ gridCall' = NoCall
  /\ UNCHANGED <<activeLayerId, globalGridType, history, historyIndex, fill, notStore>>

\* paintCell outside a stroke (isPainting is false)
paintCell(q, r, color) ==
  /\ Idle
  /\ ~isPainting
  /\ Editable
  /\ CellColor(ActiveLayer.cells, <<q, r>>) # color
  /\ Len(history) < MaxHistory
  /\ layers' = [layers EXCEPT ![FindLayer(layers, activeLayerId)].cells =
                                 SetCell(@, <<q, r>>, color)]
  /\ history' = PushHistory(history, historyIndex,
                   Command("paint", <<q, r>>, activeLayerId, color,
                           IF <<q, r>> \in DOMAIN ActiveLayer.cells
                           THEN ActiveLayer.cells[<<q, r>>] ELSE Undefined,
                           <<q, r>> \notin DOMAIN ActiveLayer.cells, <<>>))
  /\ historyIndex' = Len(history') - 1
  /\ gridCall' = NoCall
  /\ UNCHANGED <<activeLayerId, globalGridType, fill, notStore>>

\* eraseCell outside a stroke
eraseCell(q, r) ==
  /\ Idle
  /\ ~isPainting
  /\ Editable
  /\ <<q, r>> \in DOMAIN ActiveLayer.cells
  /\ Len(history) < MaxHistory
  /\ layers' = [layers EXCEPT ![FindLayer(layers, activeLayerId)].cells =
                                 DeleteCell(@, <<q, r>>)]
  /\ history' = PushHistory(history, historyIndex,
                   Command("erase", <<q, r>>, activeLayerId, Undefined,
                           ActiveLayer.cells[<<q, r>>], FALSE, <<>>))
  /\ historyIndex' = Len(history') - 1
  /\ gridCall' = NoCall
  /\ UNCHANGED <<activeLayerId, globalGridType, fill, notStore>>

clearCanvas ==
  /\ Idle
  /\ layers' = [i \in 1..Len(layers) |-> [layers[i] EXCEPT !.cells = EmptyCells]]
  /\ history' = <<>>
  /\ historyIndex' = -1
  /\ gridCall' = NoCall
  /\ UNCHANGED <<activeLayerId, globalGridType, fill, notStore>>

\* importCanvas of a document with one layer; globalType is the document's
\* globalGridType, Undefined when it has none
importCanvas(gridType, cells, globalType) ==
  /\ Idle
  /\ layers' = <<[createLayer(1, gridType) EXCEPT !.cells = cells]>>
  /\ activeLayerId' = 1
  /\ globalGridType' = IF globalType = Undefined THEN globalGridType ELSE globalType
  /\ history' = <<>>
  /\ historyIndex' = -1
  /\ gridCall' = NoCall
  /\ UNCHANGED <<fill, notStore>>

\* the result of getGridForLayer, with the arguments of the call
GridCall(layerGridType, globalType, result) ==
  [layerGridType |-> layerGridType, globalGridType |-> globalType,
   grid |-> result.grid, error |-> result.error]

\* fillArea, lines 155-164: the grid is resolved by a new GridManager,
\* outside the try block, so an error of getGridForLayer ends the handler;
\* otherwise floodFill is entered
fillArea(q, r, color) ==
  /\ Idle
  /\ Editable
  /\ Len(history) < MaxHistory
  /\ gridCall' = GridCall(ActiveLayer.gridType, globalGridType,
                          GridManager_getGridForLayer(GridManager_constructor,
                                                      ActiveLayer.gridType,
                                                      globalGridType))
  /\ fill' = IF gridCall'.error # NoError THEN fill
             ELSE FloodFill_begin(ActiveLayer, gridCall'.grid, q, r, color)
  /\ UNCHANGED <<layers, activeLayerId, globalGridType, history, historyIndex,
                 notStore>>

\* one iteration of floodFill's loop
floodFillStep ==
  /\ fill.pc = "loop"
  /\ FloodFill_looping(fill)
  /\ fill' = FloodFill_iterate(fill, LayerCells(fill.layerId))
  /\ UNCHANGED <<layers, activeLayerId, globalGridType, history, historyIndex,
                 gridCall, notStore>>

\* the loop ends and floodFill returns
floodFillReturn ==
  /\ fill.pc = "loop"
  /\ ~FloodFill_looping(fill)
  /\ fill' = FloodFill_return(fill)
  /\ UNCHANGED <<layers, activeLayerId, globalGridType, history, historyIndex,
                 gridCall, notStore>>

\* fillArea, lines 165-203: nothing is done for an empty change list;
\* otherwise the cells are set and the batch command is pushed
fillAreaApply ==
  /\ fill.pc = "returned"
  /\ IF fill.changes = <<>>
     THEN UNCHANGED <<layers, history, historyIndex>>
     ELSE /\ layers' = [layers EXCEPT ![FindLayer(layers, fill.layerId)].cells =
                                        FillCells(@, fill.changes, fill.newColor)]
          /\ history' = PushHistory(history, historyIndex,
                           Command("batch", <<0, 0>>, fill.layerId, fill.newColor,
                                   Undefined, FALSE,
                                   FillCommands(fill.changes, fill.layerId,
                                                fill.newColor)))
          /\ historyIndex' = Len(history') - 1
  /\ fill' = FillIdle
  /\ gridCall' = NoCall
  /\ UNCHANGED <<activeLayerId, globalGridType, notStore>>

Next ==
  \/ ActivateFirstLayer
  \/ \E i \in 1..Len(layers) : setActiveLayer(layers[i].id)
  \/ addPixelLayer
  \/ \E t \in GridTypes : setGlobalGridType(t)
  \/ \E i \in 1..Len(layers) : rasterizeLayer(layers[i].id)
  \/ \E c \in Window, color \in Colours : paintCell(c[1], c[2], color)
  \/ \E c \in Window : eraseCell(c[1], c[2])
  \/ clearCanvas
  \/ \E t \in GridTypes, cells \in Documents, g \in GridTypes \cup {Undefined} :
       importCanvas(t, cells, g)
  \/ \E c \in Window, color \in Colours : fillArea(c[1], c[2], color)
  \/ floodFillStep
  \/ floodFillReturn
  \/ fillAreaApply

Spec == Init /\ [][Next]_vars

(***************************************************************************)
(* The store's layer actions and undo / redo.                              *)
(***************************************************************************)
\* addLayer(name, gridType) with the name the layer panel gives
addLayer(gridType) ==
  /\ Idle
  /\ Len(layers) < MaxLayers
  /\ layers' = Append(layers, createLayer(Len(layers) + 1, gridType))
  /\ activeLayerId' = Len(layers) + 1
  /\ gridCall' = NoCall
  /\ UNCHANGED <<globalGridType, history, historyIndex, fill, notStore>>

toggleLayerVisibility(layerId) ==
  /\ Idle
  /\ HasLayer(layers, layerId)
  /\ layers' = [layers EXCEPT ![FindLayer(layers, layerId)].visible = ~@]
  /\ gridCall' = NoCall
  /\ UNCHANGED <<activeLayerId, globalGridType, history, historyIndex, fill, notStore>>

updateLayerName(layerId, name) ==
  /\ Idle
  /\ HasLayer(layers, layerId)
  /\ layers' = [layers EXCEPT ![FindLayer(layers, layerId)].name = name]
  /\ gridCall' = NoCall
  /\ UNCHANGED <<activeLayerId, globalGridType, history, historyIndex, fill, notStore>>

\* the commands of a history entry, in the order they were recorded
CommandsOf(command) ==
  IF command.type = "batch" THEN command.commands ELSE <<command>>

Reverse(s) == [i \in 1..Len(s) |-> s[Len(s) + 1 - i]]

\* undo of one paint or erase command on its layer's cells
UndoCells(cells, command) ==
  IF command.type = "paint"
  THEN IF command.wasEmpty THEN DeleteCell(cells, command.cellId)
       ELSE IF command.previousColor \notin {Undefined, Null}
       THEN SetCell(cells, command.cellId, command.previousColor)
       ELSE cells
  ELSE IF command.type = "erase"
  THEN SetCell(cells, command.cellId, command.previousColor)
  ELSE cells

\* redo of one command: a paint sets the new colour; an erase calls
\* layer.cells.delete(command.layerId), and a layer id is no key of the cells
RedoCells(cells, command) ==
  IF command.type = "paint"
  THEN SetCell(cells, command.cellId, command.newColor)
  ELSE cells

RECURSIVE UndoAll(_, _)
UndoAll(ls, commands) ==
  IF commands = <<>> THEN ls
  ELSE UndoAll(IF HasLayer(ls, Head(commands).layerId)
               THEN [ls EXCEPT ![FindLayer(ls, Head(commands).layerId)].cells =
                                  UndoCells(@, Head(commands))]
               ELSE ls,
               Tail(commands))

RECURSIVE RedoAll(_, _)
RedoAll(ls, commands) ==
  IF commands = <<>> THEN ls
  ELSE RedoAll(IF HasLayer(ls, Head(commands).layerId)
               THEN [ls EXCEPT ![FindLayer(ls, Head(commands).layerId)].cells =
                                  RedoCells(@, Head(commands))]
               ELSE ls,
               Tail(commands))

canUndo == historyIndex >= 0

canRedo == historyIndex < Len(history) - 1

undo ==
  /\ Idle
  /\ canUndo
  /\ historyIndex' = historyIndex - 1
  /\ layers' = UndoAll(layers, IF history[historyIndex + 1].type = "batch"
                               THEN Reverse(CommandsOf(history[historyIndex + 1]))
                               ELSE CommandsOf(history[historyIndex + 1]))
  /\ gridCall' = NoCall
  /\ UNCHANGED <<activeLayerId, globalGridType, history, fill, notStore>>

redo ==
  /\ Idle
  /\ canRedo
  /\ historyIndex' = historyIndex + 1
  /\ layers' = RedoAll(layers, CommandsOf(history[historyIndex + 2]))
  /\ gridCall' = NoCall
  /\ UNCHANGED <<activeLayerId, globalGridType, history, fill, notStore>>

\* the colour selected when the store is created
selectedColor == "red"

\* the cell the layer actions paint, erase and fill at
Origin == <<0, 0>>

\* the names a layer is renamed to
Names == {<<"Sketch">>}

\* the cell maps of the documents imported
SmallDocuments == {EmptyCells, SetCell(EmptyCells, Origin, "blue")}

LayersNext ==
  \/ ActivateFirstLayer
  \/ \E i \in 1..Len(layers) : setActiveLayer(layers[i].id)
  \/ \E t \in {"hexagon", "triangle"} : addLayer(t)
  \/ addPixelLayer
  \/ \E i \in 1..Len(layers) : toggleLayerVisibility(layers[i].id)
  \/ \E i \in 1..Len(layers), name \in Names : updateLayerName(layers[i].id, name)
  \/ \E t \in GridTypes : setGlobalGridType(t)
  \/ \E i \in 1..Len(layers) : rasterizeLayer(layers[i].id)
  \/ paintCell(Origin[1], Origin[2], selectedColor)
  \/ eraseCell(Origin[1], Origin[2])
  \/ fillArea(Origin[1], Origin[2], selectedColor)
  \/ floodFillStep
  \/ floodFillReturn
  \/ fillAreaApply
  \/ undo
  \/ redo
  \/ clearCanvas
  \/ \E t \in GridTypes, cells \in SmallDocuments : importCanvas(t, cells, Undefined)

SpecLayers == Init /\ [][LayersNext]_vars

(***************************************************************************)
(* A brush gesture on the canvas: the pointer handlers of the Canvas       *)
(* component (part_012), which convert positions with the grid of the      *)
(* component's last render, and the store's stroke actions.  The view is   *)
(* at zoom 1 without pan, so that getMousePos returns world coordinates.   *)
(***************************************************************************)
\* the tool selected when the store is created
activeTool == "brush"

\* the grid the handlers convert with: getGridForLayer of the active layer's
\* type, or the manager's current grid when no layer is active
Canvas_interactionGrid ==
  IF HasLayer(layers, activeLayerId)
  THEN GridManager_getGridForLayer(GridManager_constructor, ActiveLayer.gridType,
                                   globalGridType)
  ELSE GridManager_getGrid(GridManager_constructor, globalGridType)

\* interactionGrid.pixelToAxial(x, y) on the manager useGridManager built
\* for the size the render saw
Canvas_cellAt(x, y) ==
  Grid_pixelToAxial(Canvas_interactionGrid.grid, FromInt(canvas.size),
                    FromInt(x), FromInt(y))

\* paintCell without the test of the layer's lock
paintCell_applies_IgnoresLock(ls, layerId, id, color) ==
  /\ HasLayer(ls, layerId)
  /\ CellColor(ls[FindLayer(ls, layerId)].cells, id) # color

\* paintCell goes on: the active layer exists, is not locked and does not
\* hold the colour at the cell already
paintCell_applies(ls, layerId, id, color) ==
  /\ HasLayer(ls, layerId)
  /\ ~ls[FindLayer(ls, layerId)].locked
  /\ CellColor(ls[FindLayer(ls, layerId)].cells, id) # color

StrokeHas(stroke, id) == \E i \in 1..Len(stroke.cells) : stroke.cells[i].cellId = id

\* currentStroke.cells.set(cellId, {previousColor, wasEmpty}) for a cell
\* the stroke does not hold yet
paintCell_stroke(stroke, painting, cells, id) ==
  IF painting /\ stroke # NoStroke /\ ~StrokeHas(stroke, id)
  THEN [stroke EXCEPT !.cells =
          Append(@, [cellId |-> id,
                     previousColor |-> IF id \in DOMAIN cells THEN cells[id]
                                       ELSE Undefined,
                     wasEmpty |-> id \notin DOMAIN cells])]
  ELSE stroke

\* paintCell as the handlers call it, in a stroke (painting) or outside one
Canvas_paintCell(stroke, painting, id, color) ==
  IF ~paintCell_applies(layers, activeLayerId, id, color)
  THEN /\ currentStroke' = stroke
       /\ UNCHANGED <<layers, history, historyIndex>>
  ELSE /\ currentStroke' = paintCell_stroke(stroke, painting, ActiveLayer.cells, id)
       /\ layers' = [layers EXCEPT ![FindLayer(layers, activeLayerId)].cells =
                                      SetCell(@, id, color)]
       /\ IF painting THEN UNCHANGED <<history, historyIndex>>
          ELSE /\ history' = PushHistory(history, historyIndex,
                               Command("paint", id, activeLayerId, color,
                                       IF id \in DOMAIN ActiveLayer.cells
                                       THEN ActiveLayer.cells[id] ELSE Undefined,
                                       id \notin DOMAIN ActiveLayer.cells, <<>>))
               /\ historyIndex' = Len(history') - 1

\* the history has room for one more command
HistoryRoom == Len(HistoryKept(history, historyIndex)) < MaxHistory

\* handleMouseDown with the left button and the brush: startPainting, then
\* paintCell at the cell under the pointer
handleMouseDown(x, y) ==
  /\ Idle
  /\ ~isPainting
  /\ HistoryRoom
  /\ Canvas_interactionGrid.error = NoError
  /\ pointer' = [size |-> canvas.size]
  /\ isPainting' = TRUE
  /\ Canvas_paintCell([command |-> activeTool, cells |-> <<>>], TRUE,
                      CellId(Canvas_cellAt(x, y)), selectedColor)
  /\ UNCHANGED <<activeLayerId, globalGridType, fill, gridCall, gridSize, canvas,
                 notSession>>

\* handleMouseMove: the position is converted, and painted when the render
\* saw isPainting
handleMouseMove(x, y) ==
  /\ Idle
  /\ Canvas_interactionGrid.error = NoError
  /\ isPainting \/ ~canvas.isPainting \/ HistoryRoom
  /\ pointer' = [size |-> canvas.size]
  /\ IF canvas.isPainting
     THEN Canvas_paintCell(currentStroke, isPainting,
                           CellId(Canvas_cellAt(x, y)), selectedColor)
     ELSE UNCHANGED <<layers, history, historyIndex, currentStroke>>
  /\ UNCHANGED <<activeLayerId, globalGridType, fill, gridCall, gridSize,
                 isPainting, canvas, notSession>>

\* the commands stopPainting makes of a stroke: paint commands when the
\* stroke's command is 'paint', erase commands otherwise
StrokeCommands(stroke, layerId, color) ==
  [i \in 1..Len(stroke.cells) |->
     IF stroke.command = "paint"
     THEN Command("paint", stroke.cells[i].cellId, layerId, color,
                  stroke.cells[i].previousColor, stroke.cells[i].wasEmpty, <<>>)
     ELSE Command("erase", stroke.cells[i].cellId, layerId, Undefined,
                  stroke.cells[i].previousColor, FALSE, <<>>)]

stopPainting ==
  /\ Idle
  /\ IF ~isPainting \/ currentStroke = NoStroke \/ currentStroke.cells = <<>>
     THEN UNCHANGED <<history, historyIndex>>
     ELSE /\ history' = PushHistory(history, historyIndex,
                          Command("batch", <<0, 0>>, activeLayerId, Undefined,
                                  Undefined, FALSE,
                                  StrokeCommands(currentStroke, activeLayerId,
                                                 selectedColor)))
          /\ historyIndex' = Len(history') - 1
  /\ isPainting' = FALSE
  /\ currentStroke' = NoStroke
  /\ UNCHANGED <<layers, activeLayerId, globalGridType, fill, gridCall, gridSize,
                 canvas, pointer, notSession>>

\* handleMouseUp and handleMouseLeave
handleMouseUp == stopPainting

Max(a, b) == IF a >= b THEN a ELSE b

Min(a, b) == IF a <= b THEN a ELSE b

setGridSize(size) ==
  /\ Idle
  /\ gridSize' = Max(10, Min(50, size))
  /\ UNCHANGED <<storeVars, isPainting, currentStroke, canvas, pointer, notSession>>

\* the Canvas component renders again after the store changed:
\* useGridManager builds a new GridManager when gridSize is another, and the
\* handlers are made anew
Canvas_render ==
  /\ Idle
  /\ canvas # [size |-> gridSize, isPainting |-> isPainting]
  /\ canvas' = [size |-> gridSize, isPainting |-> isPainting]
  /\ UNCHANGED <<storeVars, gridSize, isPainting, currentStroke, pointer, notSession>>

\* the pointer positions of a gesture
PointerPositions == {<<0, 0>>, <<25, 0>>}

\* the sizes the settings panel asks for
GridSizes == {5, 20}

GestureNext ==
  \/ ActivateFirstLayer
  \/ \E p \in PointerPositions : handleMouseDown(p[1], p[2])
  \/ \E p \in PointerPositions : handleMouseMove(p[1], p[2])
  \/ handleMouseUp
  \/ \E size \in GridSizes : setGridSize(size)
  \/ Canvas_render
  \/ clearCanvas

SpecGesture == Init /\ [][GestureNext]_vars

(***************************************************************************)
(* An editing session on the store: the calls the tools make, each a whole *)
(* handler whose early return is a step that changes nothing.  log keeps   *)
(* the last two calls with the store's state before each.                  *)
(***************************************************************************)
\* all but the store, the Canvas component and the log
notLogged ==
  <<geomVars, triVars, nbrVars, managerVars, viewVars, snapVars, resizeVars,
    throttleVars>>

\* eraseCell goes on: the active layer exists, is not locked and holds the
\* cell
eraseCell_applies(ls, layerId, id) ==
  /\ HasLayer(ls, layerId)
  /\ ~ls[FindLayer(ls, layerId)].locked
  /\ id \in DOMAIN ls[FindLayer(ls, layerId)].cells

\* eraseCell in a stroke (painting) or outside one
Canvas_eraseCell(stroke, painting, id) ==
  IF ~eraseCell_applies(layers, activeLayerId, id)
  THEN /\ currentStroke' = stroke
       /\ UNCHANGED <<layers, history, historyIndex>>
  ELSE /\ currentStroke' = paintCell_stroke(stroke, painting, ActiveLayer.cells, id)
       /\ layers' = [layers EXCEPT ![FindLayer(layers, activeLayerId)].cells =
                                      DeleteCell(@, id)]
       /\ IF painting THEN UNCHANGED <<history, historyIndex>>
          ELSE /\ history' = PushHistory(history, historyIndex,
                               Command("erase", id, activeLayerId, Undefined,
                                       ActiveLayer.cells[id], FALSE, <<>>))
               /\ historyIndex' = Len(history') - 1

Edit_paintCell(q, r, color) ==
  /\ Idle
  /\ Canvas_paintCell(currentStroke, isPainting, <<q, r>>, color)
  /\ UNCHANGED <<activeLayerId, globalGridType, fill, gridCall, gridSize,
                 isPainting, canvas, pointer, notLogged>>

Edit_eraseCell(q, r) ==
  /\ Idle
  /\ Canvas_eraseCell(currentStroke, isPainting, <<q, r>>)
  /\ UNCHANGED <<activeLayerId, globalGridType, fill, gridCall, gridSize,
                 isPainting, canvas, pointer, notLogged>>

\* fillArea up to the call of floodFill
Edit_fillArea(q, r, color) ==
  /\ Idle
  /\ IF ~Editable THEN UNCHANGED <<fill, gridCall>>
     ELSE /\ gridCall' = GridCall(ActiveLayer.gridType, globalGridType,
                             GridManager_getGridForLayer(GridManager_constructor,
                                                         ActiveLayer.gridType,
                                                         globalGridType))
          /\ fill' = IF gridCall'.error # NoError THEN fill
                     ELSE FloodFill_begin(ActiveLayer, gridCall'.grid, q, r, color)
  /\ UNCHANGED <<layers, activeLayerId, globalGridType, history, historyIndex,
                 sessionVars, notLogged>>

\* setActiveTool(tool), then startPainting
Edit_startPainting(tool) ==
  /\ Idle
  /\ isPainting' = TRUE
  /\ currentStroke' = [command |-> tool, cells |-> <<>>]
  /\ UNCHANGED <<storeVars, gridSize, canvas, pointer, notLogged>>

Edit_undo ==
  /\ Idle
  /\ IF ~canUndo THEN UNCHANGED <<layers, historyIndex>>
     ELSE /\ historyIndex' = historyIndex - 1
          /\ layers' = UndoAll(layers,
                               IF history[historyIndex + 1].type = "batch"
                               THEN Reverse(CommandsOf(history[historyIndex + 1]))
                               ELSE CommandsOf(history[historyIndex + 1]))
  /\ UNCHANGED <<activeLayerId, globalGridType, history, fill, gridCall,
                 sessionVars, notLogged>>

Edit_redo ==
  /\ Idle
  /\ IF ~canRedo THEN UNCHANGED <<layers, historyIndex>>
     ELSE /\ historyIndex' = historyIndex + 1
          /\ layers' = RedoAll(layers, CommandsOf(history[historyIndex + 2]))
  /\ UNCHANGED <<activeLayerId, globalGridType, history, fill, gridCall,
                 sessionVars, notLogged>>

\* importCanvas of a document with the one layer `layer`
Edit_importCanvas(layer) ==
  /\ Idle
  /\ layers' = <<layer>>
  /\ activeLayerId' = layer.id
  /\ history' = <<>>
  /\ historyIndex' = -1
  /\ UNCHANGED <<globalGridType, fill, gridCall, sessionVars, notLogged>>

\* the store's document before a call
Before ==
  [layers |-> layers, activeLayerId |-> activeLayerId,
   currentStroke |-> currentStroke, history |-> history,
   historyIndex |-> historyIndex]

\* no call was made within the stroke
NoInner == [op |-> "none", flip |-> FALSE]

\* the call is put on the log
Logged(op) ==
  log' = (IF Len(log) < 2 THEN log ELSE Tail(log))
           \o <<[op |-> op, before |-> Before, inner |-> NoInner]>>

\* the call is noted in the log entry of the stroke it belongs to
LoggedInStroke(op) ==
  log' = [log EXCEPT ![Len(log)].inner = [op |-> op, flip |-> ~@.flip]]

\* the call the log saw last
LastCall(l) ==
  IF l = <<>> THEN "none"
  ELSE IF l[Len(l)].inner.op # "none" THEN l[Len(l)].inner.op
  ELSE l[Len(l)].op

\* the layers of the documents imported: empty or with one blue cell, locked
\* or not
ImportedLayers ==
  {[createLayer(1, "hexagon") EXCEPT !.cells = cells, !.locked = locked] :
     cells \in SmallDocuments, locked \in BOOLEAN}

\* the cells the tools are used on
EditCells == {<<0, 0>>, <<1, 0>>}

\* the tools a stroke is made with
StrokeTools == {"brush", "eraser"}

\* a direct call logs itself; a call within a stroke belongs to the stroke
LoggedCall(op) == IF isPainting THEN LoggedInStroke(op) ELSE Logged(op)

EditNext ==
  \/ ActivateFirstLayer
  \/ \E layer \in ImportedLayers :
       ~isPainting /\ Edit_importCanvas(layer) /\ Logged("importCanvas")
  \/ \E c \in EditCells :
       /\ isPainting \/ HistoryRoom
       /\ isPainting => currentStroke.command = "brush"
       /\ Edit_paintCell(c[1], c[2], selectedColor)
       /\ LoggedCall("paintCell")
  \/ \E c \in EditCells :
       /\ isPainting \/ HistoryRoom
       /\ isPainting => currentStroke.command = "eraser"
       /\ Edit_eraseCell(c[1], c[2])
       /\ LoggedCall("eraseCell")
  \/ /\ ~isPainting /\ HistoryRoom
     /\ Edit_fillArea(Origin[1], Origin[2], selectedColor)
     /\ Logged("fillArea")
  \/ floodFillStep
  \/ floodFillReturn
  \/ fillAreaApply
  \/ \E tool \in StrokeTools :
       /\ ~isPainting /\ HistoryRoom
       /\ Edit_startPainting(tool)
       /\ Logged(IF tool = "brush" THEN "brushStroke" ELSE "eraserStroke")
  \/ isPainting /\ stopPainting
  \/ ~isPainting /\ Edit_undo /\ Logged("undo")
  \/ ~isPainting /\ Edit_redo /\ Logged("redo")

SpecEdit == Init /\ [][EditNext]_vars

(***************************************************************************)
(* A long editing session: one cell painted over and over in two colours,  *)
(* with undo, redo and clearCanvas, until the history is full and its      *)
(* oldest command is dropped.                                              *)
(***************************************************************************)
CapNext ==
  \/ ActivateFirstLayer
  \/ \E color \in Colours :
       Edit_paintCell(Origin[1], Origin[2], color) /\ UNCHANGED log
  \/ Edit_undo /\ UNCHANGED log
  \/ Edit_redo /\ UNCHANGED log
  \/ clearCanvas

SpecCap == Init /\ [][CapNext]_vars

(***************************************************************************)
(* Fills of a row of cells of one colour: a document with the cells (0, 0) *)
(* to (n - 1, 0) in blue is imported and filled from its first cell.       *)
(***************************************************************************)
MaxRow == 4

\* the cell map of a row of n blue cells
Row(n) == [id \in {<<q, 0>> : q \in 0..(n - 1)} |-> "blue"]

FillNext ==
  \/ \E t \in {"hexagon", "triangle"}, n \in 0..MaxRow :
       importCanvas(t, Row(n), Undefined)
  \/ \E color \in Colours : fillArea(Origin[1], Origin[2], color)
  \/ floodFillStep
  \/ floodFillReturn
  \/ fillAreaApply

SpecFill == Init /\ [][FillNext]_vars

(***************************************************************************)
(* throttle(func, delay) of utils/performance.ts.  The calls of the        *)
(* returned function are numbered 1, 2, ... and a call's number stands for *)
(* its arguments.  A timer's callback runs at its due time or later: when  *)
(* the timer task and a call are both waiting, either may run first.       *)
(***************************************************************************)
ThrottleInit == ThrottleIdle /\ RestOfThrottle

\* the clock moves on
Throttle_tick ==
  /\ clock < MaxTime
  /\ clock' = clock + 1
  /\ UNCHANGED <<lastExecTime, timeoutId, invoked, callCount, notThrottle>>

\* a call that runs func at once: the timer is left as it is
Throttle_callNow(args) ==
  /\ invoked' = Append(invoked, args)
  /\ lastExecTime' = clock
  /\ UNCHANGED timeoutId

\* a call within the delay: the timer is cleared and set anew
Throttle_callLater(args) ==
  /\ timeoutId' = [armed |-> TRUE,
                   due |-> clock + (ThrottleDelay - (clock - lastExecTime)),
                   args |-> args]
  /\ UNCHANGED <<invoked, lastExecTime>>

\* the function throttle returns, lines 9-24
Throttle_call ==
  /\ callCount < MaxCalls
  /\ clock + ThrottleDelay <= MaxTime
  /\ callCount' = callCount + 1
  /\ IF clock - lastExecTime > ThrottleDelay
     THEN Throttle_callNow(callCount + 1)
     ELSE Throttle_callLater(callCount + 1)
  /\ UNCHANGED <<clock, notThrottle>>

\* the timer's callback, lines 20-23
Throttle_timeout ==
  /\ timeoutId.armed
  /\ clock >= timeoutId.due
  /\ invoked' = Append(invoked, timeoutId.args)
  /\ lastExecTime' = clock
  /\ timeoutId' = [timeoutId EXCEPT !.armed = FALSE]
  /\ UNCHANGED <<clock, callCount, notThrottle>>

ThrottleNext == Throttle_tick \/ Throttle_call \/ Throttle_timeout

SpecThrottle == ThrottleInit /\ [][ThrottleNext]_vars

\* the clock runs and a timer that is due fires in the end
SpecThrottleFair ==
  SpecThrottle /\ WF_vars(Throttle_tick) /\ WF_vars(Throttle_timeout)

(***************************************************************************)
(* getNeighbors of a cell A, then of each of A's neighbours.               *)
(***************************************************************************)
NbrInit ==
  /\ nKind \in NeighborKinds
  /\ nCell \in CoordSamples \X CoordSamples
  /\ nOut = <<>>
  /\ nBack = <<>>
  /\ RestOfNbr

\* grid.getNeighbors(A.q, A.r)
GetNeighbors ==
  /\ nOut = <<>>
  /\ nOut' = Class_getNeighbors(nKind, nCell[1], nCell[2])
  /\ UNCHANGED <<nKind, nCell, nBack, notNbr>>

\* grid.getNeighbors(B.q, B.r) for the next neighbour B of A
GetNeighborsOfNeighbor ==
  /\ Len(nBack) < Len(nOut)
  /\ nBack' = Append(nBack, Class_getNeighbors(nKind, nOut[Len(nBack) + 1].q,
                                               nOut[Len(nBack) + 1].r))
  /\ UNCHANGED <<nKind, nCell, nOut, notNbr>>

NbrNext == GetNeighbors \/ GetNeighborsOfNeighbor

SpecNbr == NbrInit /\ [][NbrNext]_vars

(***************************************************************************)
(* The calls on a GridManager, on the grids it holds and on a PixelGrid.   *)
(***************************************************************************)
\* the sizes setSize is called with
SizeArgs == {-20, -1, 0, 1, 20, 40}

ManagerInit == ManagerIdle /\ RestOfManager

\* gridManager.getGrid(gridType), gridType "undefined" when omitted
ManagerGetGrid(gridType) ==
  /\ mCall' = ManagerCall("getGrid", gridType,
                 GridManager_getGrid(DOMAIN mSizes,
                    GridManager_requested(gridType, mCurrent)).grid,
                 0,
                 GridManager_getGrid(DOMAIN mSizes,
                    GridManager_requested(gridType, mCurrent)).error)
  /\ UNCHANGED <<mSizes, mCurrent, mPixel, notManager>>

ManagerSetCurrentGridType(gridType) ==
  /\ mCurrent' = gridType
  /\ mCall' = ManagerCall("setCurrentGridType", gridType, "none", 0, NoError)
  /\ UNCHANGED <<mSizes, mPixel, notManager>>

ManagerSetSize(size) ==
  /\ mSizes' = GridManager_setSize(mSizes, size)
  /\ mCall' = ManagerCall("setSize", "none", "none", size, NoError)
  /\ UNCHANGED <<mCurrent, mPixel, notManager>>

ManagerGetSize ==
  /\ mCall' = ManagerCall("getSize", "none", "none",
                          GridManager_getSize(mSizes, mCurrent).size,
                          GridManager_getSize(mSizes, mCurrent).error)
  /\ UNCHANGED <<mSizes, mCurrent, mPixel, notManager>>

\* gridManager.getGrid(gridType).setSize(size) on a registered grid
GridSetSize(gridType, size) ==
  /\ gridType \in DOMAIN mSizes
  /\ mSizes' = [mSizes EXCEPT ![gridType] = Grid_setSize(size)]
  /\ mCall' = ManagerCall("grid.setSize", gridType, gridType, size, NoError)
  /\ UNCHANGED <<mCurrent, mPixel, notManager>>

\* pixelGrid.setSize(size)
PixelGridSetSize(size) ==
  /\ mPixel' = Grid_setSize(size)
  /\ mCall' = ManagerCall("grid.setSize", "pixel", "pixel", size, NoError)
  /\ UNCHANGED <<mSizes, mCurrent, notManager>>

ManagerNext ==
  \/ \E t \in GridTypes \cup {"undefined"} : ManagerGetGrid(t)
  \/ \E t \in GridTypes : ManagerSetCurrentGridType(t)
  \/ \E s \in SizeArgs : ManagerSetSize(s)
  \/ ManagerGetSize
  \/ \E t \in GridTypes, s \in SizeArgs : GridSetSize(t, s)
  \/ \E s \in SizeArgs : PixelGridSetSize(s)

SpecManager == ManagerInit /\ [][ManagerNext]_vars

(***************************************************************************)
(* One frame of the canvas: the viewport bounds, the culling test of a     *)
(* cell and the place the cell's centre is drawn at.  Cells are sampled    *)
(* from [-MaxView, MaxView].                                               *)
(***************************************************************************)
MaxView == 15

ViewSamples == {-MaxView, 2 - MaxView, -8, 0, 8, MaxView - 2, MaxView}

\* zoom as a fraction: 0.5, 1 and 5
Zooms == {<<1, 2>>, <<1, 1>>, <<5, 1>>}

Pans == {<<0, 0>>, <<100, -50>>}

ViewInit ==
  /\ \E z \in Zooms, pan \in Pans :
       vView = [width |-> 800, height |-> 600, zoom |-> z,
                panX |-> pan[1], panY |-> pan[2], gridSize |-> 20]
  /\ vKind \in GridTypes
  /\ vCell \in ViewSamples \X ViewSamples
  /\ vOut = ViewStart
  /\ RestOfView

\* viewportBounds of the Canvas component
CalculateViewportBounds ==
  /\ vKind # "none" /\ vOut.step = 0
  /\ vOut' = [vOut EXCEPT !.step = 1,
                          !.bounds = calculateViewportBounds(
                             FromInt(vView.width), FromInt(vView.height),
                             SizeValue(vView.zoom), FromInt(vView.panX),
                             FromInt(vView.panY), FromInt(vView.gridSize))]
  /\ UNCHANGED <<vView, vKind, vCell, notView>>

\* the test of visibleCells
IsCellInViewport ==
  /\ vOut.step = 1
  /\ vOut' = [vOut EXCEPT !.step = 2,
                          !.inViewport = isCellInViewport(vCell[1], vCell[2],
                                                          vOut.bounds)]
  /\ UNCHANGED <<vView, vKind, vCell, notView>>

\* the cell's centre under the transform of draw
DrawCentre ==
  /\ vOut.step = 2
  /\ vOut' = [vOut EXCEPT !.step = 3,
                          !.screen = Canvas_screen(
                             FromInt(vView.width), FromInt(vView.height),
                             SizeValue(vView.zoom), FromInt(vView.panX),
                             FromInt(vView.panY),
                             Grid_axialToPixel(vKind, FromInt(vView.gridSize),
                                               vCell[1], vCell[2]))]
  /\ UNCHANGED <<vView, vKind, vCell, notView>>

ViewNext == CalculateViewportBounds \/ IsCellInViewport \/ DrawCentre

SpecView == ViewInit /\ [][ViewNext]_vars

(***************************************************************************)
(* One snapToGrid call with an explicit threshold, followed by the calls   *)
(* its result is compared with: the centre of the cell under the point and *)
(* the distance of the point from it.                                      *)
(***************************************************************************)
\* thresholds: 0, the default's value 3, and one wider than a small cell
Thresholds == {0, 3, 15}

SnapInit ==
  /\ sKind \in GridTypes
  /\ sSize \in Sizes
  /\ sIn \in PointSamples \X PointSamples \X Thresholds
  /\ sOut = SnapStart
  /\ RestOfSnap

\* grid.snapToGrid(x, y, threshold)
SnapToGrid ==
  /\ sKind # "none" /\ sOut.step = 0
  /\ sOut' = [sOut EXCEPT !.step = 1,
                          !.result = Grid_snapToGrid(sKind, SizeValue(sSize),
                                                     FromInt(sIn[1]), FromInt(sIn[2]),
                                                     FromInt(sIn[3]))]
  /\ UNCHANGED <<sKind, sSize, sIn, notSnap>>

\* grid.axialToPixel of grid.pixelToAxial(x, y)
SnapNearest ==
  /\ sOut.step = 1
  /\ sOut' = [sOut EXCEPT !.step = 2,
                          !.nearest = Grid_centre(sKind, SizeValue(sSize),
                                        Grid_pixelToAxial(sKind, SizeValue(sSize),
                                                          FromInt(sIn[1]),
                                                          FromInt(sIn[2])))]
  /\ UNCHANGED <<sKind, sSize, sIn, notSnap>>

\* the distance of (x, y) from that centre
SnapDistance ==
  /\ sOut.step = 2
  /\ sOut' = [sOut EXCEPT !.step = 3,
                          !.distance = Distance(FromInt(sIn[1]), FromInt(sIn[2]),
                                                sOut.nearest.x, sOut.nearest.y)]
  /\ UNCHANGED <<sKind, sSize, sIn, notSnap>>

SnapNext == SnapToGrid \/ SnapNearest \/ SnapDistance

SpecSnap == SnapInit /\ [][SnapNext]_vars

(***************************************************************************)
(* A resize: axialToPixel of a cell, setSize(k * size) on the same grid,   *)
(* and axialToPixel of the cell again.                                     *)
(***************************************************************************)
\* the factors a grid is resized by
Factors == {2, 3, 4}

ResizeInit ==
  /\ zKind \in GridTypes
  /\ zSize \in {SizeValue(sz) : sz \in Sizes}
  /\ zCell \in CoordSamples \X CoordSamples
  /\ zOut = ResizeStart
  /\ RestOfResize

\* grid.axialToPixel(q, r) before the resize
ResizeBefore ==
  /\ zKind # "none" /\ zOut.step = 0
  /\ zOut' = [zOut EXCEPT !.step = 1,
                          !.before = Grid_axialToPixel(zKind, zSize, zCell[1], zCell[2])]
  /\ UNCHANGED <<zKind, zSize, zCell, notResize>>

\* grid.setSize(k * size)
ResizeSetSize(k) ==
  /\ zOut.step = 1
  /\ zSize' = Grid_setSize(FMul(FromInt(k), zSize))
  /\ zOut' = [zOut EXCEPT !.step = 2, !.factor = k]
  /\ UNCHANGED <<zKind, zCell, notResize>>

\* grid.axialToPixel(q, r) after the resize
ResizeAfter ==
  /\ zOut.step = 2
  /\ zOut' = [zOut EXCEPT !.step = 3,
                          !.after = Grid_axialToPixel(zKind, zSize, zCell[1], zCell[2])]
  /\ UNCHANGED <<zKind, zSize, zCell, notResize>>

ResizeNext == ResizeBefore \/ (\E k \in Factors : ResizeSetSize(k)) \/ ResizeAfter

SpecResize == ResizeInit /\ [][ResizeNext]_vars

(***************************************************************************)
(* Properties of the coordinate calls.                                     *)
(***************************************************************************)
RoundTripDone(kind) == gOp = "roundTrip" /\ gKind = kind /\ GeomDone

RoundTripExact == gOut.cell = Cell(gIn[1], gIn[2])

\* the sizes 10, 20 and 37.5
SpecSizes == {<<10, 1>>, <<20, 1>>, <<75, 2>>}

\* C2: a finished triangle round trip at size 10, 20 or 37.5 returns the cell
\* (q, r) it started from, for every sampled q, r in [-MaxCoord, MaxCoord]
C2_TriangleRoundTrip ==
  (RoundTripDone("triangle") /\ gSize \in SpecSizes) => RoundTripExact

\* the significand p holds no more than 53 significant bits
FExactBits(p) ==
  \/ BBitLen(p) <= MantBits
  \/ BShl(BShr(p, BBitLen(p) - MantBits), BBitLen(p) - MantBits) = p

\* x * y is computed without rounding
FExactProduct(x, y) ==
  FIsZero(x) \/ FIsZero(y) \/ FExactBits(BMul(x.man, y.man))

\* q * size and r * size of the run's cell are computed without rounding
PixelProductsExact ==
  /\ FExactProduct(FromInt(gIn[1]), SizeValue(gSize))
  /\ FExactProduct(FromInt(gIn[2]), SizeValue(gSize))

\* C4 as stated: a finished pixel round trip returns the cell it started from,
\* at every positive size
C4_PixelRoundTripAnySize == RoundTripDone("pixel") => RoundTripExact

\* C4 amended: a finished pixel round trip returns the cell (q, r) it started
\* from whenever q * size and r * size are exact in binary64 (every integer
\* size, and 10, 20, 37.5 among them)
C4_PixelRoundTrip ==
  (RoundTripDone("pixel") /\ PixelProductsExact) => RoundTripExact

\* a pixel round trip from a cell with negative coordinates at size 37.5 came
\* back to that cell
C4_Witness ==
  /\ RoundTripDone("pixel") /\ gSize = <<75, 2>> /\ gIn = <<-MaxCoord, -3>>
  /\ PixelProductsExact /\ RoundTripExact

\* C5: a finished hexagon round trip returns q and r of the cell it started
\* from, at every sampled size and cell
C5_HexRoundTrip == RoundTripDone("hexagon") => RoundTripExact

\* a hexagon round trip from the corner cell (-MaxCoord, MaxCoord) at size
\* 37.5 came back to that cell
C5_Witness ==
  /\ RoundTripDone("hexagon") /\ gSize = <<75, 2>> /\ gIn = <<-MaxCoord, MaxCoord>>
  /\ RoundTripExact

\* C6: after a hit test, pointInCell holds for the pointer position and the
\* centre of the cell pixelToAxial chose for it, on every grid
C6_InverseAgreesWithRendering == (gOp = "hitTest" /\ GeomDone) => gOut.inside

\* C7: after a centre test, pointInCell holds for a cell's centre against
\* the cell drawn around that centre, on every grid
C7_CentreContained == (gOp = "centre" /\ GeomDone) => gOut.inside


\* C13: each vertex of getCellVertices(cx, cy) (getHexVertices on the hexagon
\* grid) satisfies pointInCell(vertex, cx, cy) (pointInHex), on every grid
C13_VerticesInCell ==
  (gOp = "vertices" /\ gOut.step > 2) => gOut.inside

(***************************************************************************)
(* Properties of the part_003 grid's calls.                                *)
(***************************************************************************)
\* C3: a call of pixelToAxial (or of the two methods it calls) on the
\* part_003 grid never ends in a RangeError: the mutual calls stay within
\* the call stack
C3_NoUnboundedRecursion == tStatus # "RangeError"

\* no frame ever gets a call back, so no method ever returns
NoFrameResumes ==
  tStatus = "running" =>
    \A i \in 1..(Len(tStack) - 1) : tStack[i].pc \in {"L35", "L54", "L89"}

(***************************************************************************)
(* Properties of the store.                                                *)
(***************************************************************************)
\* C1: whenever fillArea asks getGridForLayer for the grid of a pixel layer,
\* the call returns the pixel grid and raises no error
C1_PixelLayerResolves ==
  gridCall.layerGridType = "pixel" =>
    (gridCall.grid = "pixel" /\ gridCall.error = NoError)

\* the cells of colour target
SameColour(cells, target) == {k \in DOMAIN cells : cells[k] = target}

NeighbourIds(grid, id) ==
  {CellId(Grid_getNeighbors(grid, id[1], id[2])[i]) :
     i \in 1..Len(Grid_getNeighbors(grid, id[1], id[2]))}

\* the cells of same joined to S by steps between neighbours
RECURSIVE Reach(_, _, _)
Reach(S, same, grid) ==
  IF \E k \in same \ S : \E c \in S : k \in NeighbourIds(grid, c)
  THEN Reach(S \cup {k \in same : \E c \in S : k \in NeighbourIds(grid, c)},
             same, grid)
  ELSE S

\* the connected region of a painted start cell
Region(cells, grid, start) ==
  Reach({start}, SameColour(cells, CellColor(cells, start)), grid)

\* floodFill has run its loop and returned with the cap not reached
FillReturnedBelowCap ==
  /\ fill.pc = "returned"
  /\ fill.targetColor # fill.newColor
  /\ fill.processedCells < MAX_CELLS

\* C8: when floodFill returns with the cap not reached, its change list holds
\* each cell of the start cell's connected region of the target colour once
\* and nothing else, and every entry's oldColor is the target colour
C8_FillIsConnectedRegion ==
  FillReturnedBelowCap =>
    /\ fill.targetColor = CellColor(LayerCells(fill.layerId), fill.start)
    /\ ChangeIds(fill.changes) = Region(LayerCells(fill.layerId), fill.grid, fill.start)
    /\ Cardinality(ChangeIds(fill.changes)) = Len(fill.changes)
    /\ \A i \in 1..Len(fill.changes) : fill.changes[i].oldColor = fill.targetColor

\* a fill from (0, 0) on a triangle grid whose layer has (0, 0) and (1, 0) in
\* one colour and (3, 0) in it too, out of reach, returned the first two
C8_Witness ==
  /\ FillReturnedBelowCap
  /\ fill.grid = "triangle"
  /\ fill.start = <<0, 0>>
  /\ SameColour(LayerCells(fill.layerId), fill.targetColor) = Window
  /\ ChangeIds(fill.changes) = {<<0, 0>>, <<1, 0>>}

\* the fill in progress is on a layer with no painted cell
FillOfEmptyLayer ==
  fill.pc # "idle" /\ DOMAIN LayerCells(fill.layerId) = {}

\* C9: a fill of a layer with no painted cell never runs more than
\* 6 * MAX_CELLS + 1 iterations nor processes more than MAX_CELLS cells, and
\* when it returns the warning was given and the change list is not empty and
\* no longer than MAX_CELLS
C9_BoundedFill ==
  FillOfEmptyLayer =>
    /\ fill.iterations <= 6 * MAX_CELLS + 1
    /\ fill.processedCells <= MAX_CELLS
    /\ fill.pc = "returned" =>
         /\ fill.warned
         /\ fill.changes # <<>>
         /\ Len(fill.changes) <= MAX_CELLS

\* a fill of an empty hexagon layer returned MAX_CELLS changes and warned
C9_Witness ==
  /\ FillOfEmptyLayer
  /\ fill.pc = "returned"
  /\ fill.grid = "hexagon"
  /\ fill.warned
  /\ Len(fill.changes) = MAX_CELLS

\* the fill f is of a start cell that already has the new colour
NoOpFill(f) == f.pc # "idle" /\ f.targetColor = f.newColor

\* C10: a fill of a start cell that already has the new colour returns an
\* empty change list, and no step of it, from the call of fillArea to its
\* end, changes the layers, the history or historyIndex
C10_NoOpFill ==
  [][(NoOpFill(fill) \/ NoOpFill(fill')) =>
       /\ UNCHANGED <<layers, history, historyIndex>>
       /\ NoOpFill(fill') => (fill'.pc = "returned" /\ fill'.changes = <<>>)]_vars

\* floodFill returned from a red start cell filled with red
C10_Witness ==
  /\ NoOpFill(fill)
  /\ fill.pc = "returned"
  /\ fill.changes = <<>>
  /\ fill.newColor = "red"
  /\ CellColor(LayerCells(fill.layerId), fill.start) = "red"

(***************************************************************************)
(* Properties of getNeighbors.                                             *)
(***************************************************************************)
SeqSet(s) == {s[i] : i \in 1..Len(s)}

\* the three cells that share an edge with (q, r): left, right, and the cell
\* above an upward triangle or below a downward one ((q + r) % 2 === 0 is
\* upward in utils/triangleGrid.ts)
EdgeNeighbors(q, r) ==
  {Cell(q - 1, r), Cell(q + 1, r),
   IF JsRem(q + r, 2) = 0 THEN Cell(q, r - 1) ELSE Cell(q, r + 1)}

\* C11: TriangleGrid.getNeighbors(q, r) of utils/triangleGrid.ts returns
\* exactly the three edge neighbours of (q, r) and no cell that shares only
\* a corner with it
C11_TriangleEdgeNeighbors ==
  (nKind = "triangle" /\ nOut # <<>>) =>
    /\ Len(nOut) = 3
    /\ SeqSet(nOut) = EdgeNeighbors(nCell[1], nCell[2])
    /\ Cell(nCell[1] - 1, nCell[2] - 1) \notin SeqSet(nOut)
    /\ Cell(nCell[1] + 1, nCell[2] + 1) \notin SeqSet(nOut)

\* pixelToAxial has been called on the hexagon grid and gOut.pt is still its
\* argument
HexRounded ==
  /\ gKind = "hexagon"
  /\ \/ gOp = "hitTest" /\ gOut.step = 1
     \/ gOp = "roundTrip" /\ gOut.step = 2

\* C23: every coordinate returned by HexGrid.pixelToAxial carries s with
\* q + r + s = 0, whichever coordinate roundHex recomputed
C23_CubeSumZero ==
  HexRounded => gOut.hex.q + gOut.hex.r + gOut.hex.s = 0

\* the fractional coordinate pixelToAxial hands to roundHex for gOut.pt
FracOfPt ==
  HexGrid_fracHex(
    FDiv(FMul(F2_3, gOut.pt.x), SizeValue(gSize)),
    FDiv(FAdd(FMul(FNeg1_3, gOut.pt.x), FMul(FSqrt3_3, gOut.pt.y)), SizeValue(gSize)))

\* the rounding errors of q, r and s
RoundDiff(x) == FAbs(FSub(FromInt(FRoundInt(x)), x))

QDiff == RoundDiff(FracOfPt.q)

RDiff == RoundDiff(FracOfPt.r)

SDiff == RoundDiff(FracOfPt.s)

\* the three branches of roundHex
BranchQ == FGt(QDiff, RDiff) /\ FGt(QDiff, SDiff)

BranchR == ~BranchQ /\ FGt(RDiff, SDiff)

BranchS == ~BranchQ /\ ~FGt(RDiff, SDiff)

\* the independent roundings of q, r and s do not sum to 0
RoundsDisagree ==
  FRoundInt(FracOfPt.q) + FRoundInt(FracOfPt.r) + FRoundInt(FracOfPt.s) # 0

\* pixelToAxial returned a coordinate whose q was recomputed because the
\* three roundings disagreed
C23_Witness == HexRounded /\ BranchQ /\ RoundsDisagree

C23_WitnessR == HexRounded /\ BranchR /\ RoundsDisagree

C23_WitnessS == HexRounded /\ BranchS /\ RoundsDisagree

\* the six cells around (q, r)
HexRing(q, r) ==
  {Cell(q + d[1], r + d[2]) :
     d \in {<<1, 0>>, <<1, -1>>, <<0, -1>>, <<-1, 0>>, <<-1, 1>>, <<0, 1>>}}

\* C22: HexGrid.getNeighbors(q, r) returns exactly the six cells around
\* (q, r), each once, and never (q, r) itself
C22_HexNeighborRing ==
  (nKind = "hexagon" /\ nOut # <<>>) =>
    /\ Len(nOut) = 6
    /\ SeqSet(nOut) = HexRing(nCell[1], nCell[2])
    /\ Cardinality(SeqSet(nOut)) = 6
    /\ Cell(nCell[1], nCell[2]) \notin SeqSet(nOut)

\* getNeighbors(0, 0) on the hexagon grid returned the ring of the origin
C22_Witness ==
  /\ nKind = "hexagon" /\ nCell = <<0, 0>>
  /\ SeqSet(nOut) = {Cell(1, 0), Cell(1, -1), Cell(0, -1),
                     Cell(-1, 0), Cell(-1, 1), Cell(0, 1)}

\* every neighbour of A has been asked for its neighbours
NbrDone == nOut # <<>> /\ Len(nBack) = Len(nOut)

\* C12: on the hexagon grid, the pixel grid and the triangle grid of
\* part_002, A is among the neighbours of each of A's neighbours
C12_NeighborSymmetry ==
  (NbrDone /\ nKind \in {"hexagon", "pixel", "parityTriangle"}) =>
    \A i \in 1..Len(nBack) : Cell(nCell[1], nCell[2]) \in SeqSet(nBack[i])

\* the neighbours of the part_002 cell (-3, 0), where q + r is a negative odd
\* number, all have (-3, 0) as a neighbour
C12_Witness ==
  /\ NbrDone /\ nKind = "parityTriangle" /\ nCell = <<-3, 0>>
  /\ JsRem(nCell[1] + nCell[2], 2) = -1
  /\ \A i \in 1..Len(nBack) : Cell(-3, 0) \in SeqSet(nBack[i])

(***************************************************************************)
(* Properties of the grids' sizes and of GridManager.                      *)
(***************************************************************************)
\* C14: whatever setSize was called with, getSize() of every grid is at
\* least 1
C14_SizeClamped == mPixel >= 1 /\ \A t \in DOMAIN mSizes : mSizes[t] >= 1

\* the type a getGrid call recorded in c asked for
RequestedType(c) == GridManager_requested(c.arg, mCurrent)

\* C19: a getGrid call returns the grid registered for the type asked for
\* (the current type when none is given), or raises an error and returns no
\* grid when none is registered for it; the call changes neither the current
\* type nor the registered grids
C19_GetGrid ==
  [][mCall'.op = "getGrid" =>
       /\ UNCHANGED <<mSizes, mCurrent>>
       /\ RequestedType(mCall') \in DOMAIN mSizes =>
            (mCall'.grid = RequestedType(mCall') /\ mCall'.error = NoError)
       /\ RequestedType(mCall') \notin DOMAIN mSizes =>
            (mCall'.grid = "none" /\ mCall'.error # NoError)]_vars

\* getGrid() with the type omitted and the current type pixel raised the
\* error, after the grids had been resized
C19_Witness ==
  /\ mCall.op = "getGrid" /\ mCall.arg = "undefined" /\ mCurrent = "pixel"
  /\ mCall.grid = "none" /\ mCall.error # NoError
  /\ mSizes["hexagon"] = 40

\* C20: right after GridManager.setSize(s), getSize() of each registered grid
\* is s and GridManager.getSize() returns s, whatever the current type is
C20_SetSizePropagates ==
  mCall.op = "setSize" =>
    /\ \A t \in DOMAIN mSizes : mSizes[t] = mCall.size
    /\ GridManager_getSize(mSizes, mCurrent).error = NoError
    /\ GridManager_getSize(mSizes, mCurrent).size = mCall.size

(***************************************************************************)
(* Properties of viewport culling.                                         *)
(***************************************************************************)
\* the cell's centre is drawn inside the canvas rectangle
CentreVisible ==
  /\ vOut.step = 3
  /\ FGe(vOut.screen.x, FZero) /\ FLe(vOut.screen.x, FromInt(vView.width))
  /\ FGe(vOut.screen.y, FZero) /\ FLe(vOut.screen.y, FromInt(vView.height))

\* C15: a cell whose centre is drawn inside the canvas rectangle passes
\* isCellInViewport with the bounds of calculateViewportBounds, on hexagon,
\* pixel and triangle layers
C15_VisibleCellNotCulled == CentreVisible => vOut.inViewport

(***************************************************************************)
(* Properties of snapToGrid.                                               *)
(***************************************************************************)
SamePoint(p, q) == FEq(p.x, q.x) /\ FEq(p.y, q.y)

\* C16: snapToGrid(x, y, t) with an explicit t >= 0 returns
\* axialToPixel(pixelToAxial(x, y)) when (x, y) is within t of that centre
\* and (x, y) itself otherwise, on every grid
C16_SnapWithinThreshold ==
  sOut.step = 3 =>
    SamePoint(sOut.result,
              IF FLe(sOut.distance, FromInt(sIn[3])) THEN sOut.nearest
              ELSE Pt(FromInt(sIn[1]), FromInt(sIn[2])))

(***************************************************************************)
(* Properties of the layers' grid types.                                   *)
(***************************************************************************)
\* the step replaces the document
ImportStep ==
  \E t \in GridTypes, cells \in SmallDocuments : importCanvas(t, cells, Undefined)

RasterizeStep(layerId) == rasterizeLayer(layerId)

\* C17: under the store's actions on existing layers a pixel layer stays
\* pixel, and a layer's gridType changes only by rasterizeLayer of that
\* layer, to pixel
C17_RasterizationOneWay ==
  [][ImportStep \/
     \A i \in 1..Len(layers) :
       /\ i <= Len(layers') /\ layers'[i].id = layers[i].id
       /\ layers[i].gridType = "pixel" => layers'[i].gridType = "pixel"
       /\ layers'[i].gridType # layers[i].gridType =>
            layers'[i].gridType = "pixel" /\ RasterizeStep(layers[i].id)]_vars

\* a shape layer has been rasterized and edited, and the edit undone
C17_Witness ==
  \E i \in 1..Len(layers) :
    /\ layers[i].gridType = "pixel"
    /\ NameIncludes(layers[i].name, "(Rasterized)")
    /\ history # <<>> /\ historyIndex = -1

(***************************************************************************)
(* Properties of a gesture.                                                *)
(***************************************************************************)
\* C18: between startPainting and the matching stopPainting the grid size
\* the pointer positions are converted with does not change
C18_GridSizeFixedInGesture ==
  [][(isPainting /\ isPainting') => pointer'.size = pointer.size]_vars

(***************************************************************************)
(* Properties of a resize.                                                 *)
(***************************************************************************)
\* p is k times q, coordinate by coordinate
Scaled(p, k, q) ==
  FEq(p.x, FMul(FromInt(k), q.x)) /\ FEq(p.y, FMul(FromInt(k), q.y))

ResizeDone == zOut.step = 3 /\ zKind \in {"hexagon", "pixel"}

\* C21 as stated: on the hexagon and pixel grids axialToPixel(q, r) after
\* setSize(k * s) is k times its value at size s, for every factor k
C21_LinearScaling ==
  ResizeDone => Scaled(zOut.after, zOut.factor, zOut.before)

\* C21: on the hexagon and pixel grids axialToPixel(q, r) after
\* setSize(k * s) is exactly k times its value at size s when k is a power of
\* two, the doubling of size 20 to 40 included
C21_ScalingByPowerOfTwo ==
  (ResizeDone /\ zOut.factor \in {2, 4}) =>
    Scaled(zOut.after, zOut.factor, zOut.before)

\* a grid of size 20 was resized to 40 and axialToPixel(1, 1) doubled
C21_Witness ==
  /\ ResizeDone
  /\ zSize = FromInt(40) /\ zOut.factor = 2 /\ zCell = <<1, 1>>
  /\ Scaled(zOut.after, 2, zOut.before)
  /\ ~FIsZero(zOut.before.y)

\* the kinds of call that record a command
RecordingOps == {"paintCell", "eraseCell", "fillArea", "brushStroke", "eraserStroke"}

\* the log's first call recorded one command, the second call was an undo
\* that took it back, and nothing was called since
RecordedThenUndone ==
  /\ Len(log) = 2 /\ Idle /\ ~isPainting
  /\ log[1].op \in RecordingOps
  /\ log[2].op = "undo"
  /\ log[2].before.history = history
  /\ Len(history) =
       Len(HistoryKept(log[1].before.history, log[1].before.historyIndex)) + 1
  /\ log[2].before.historyIndex = Len(history) - 1
  /\ historyIndex = Len(history) - 2

\* C24: undo after one recorded operation (paintCell, eraseCell, fillArea or
\* a stroke) gives back the layers as they were before the operation, keys
\* and colours
C24_UndoRestoresPicture ==
  RecordedThenUndone => layers = log[1].before.layers

\* every cell of the layers has a colour
Coloured(ls) ==
  \A i \in 1..Len(ls) : \A id \in DOMAIN ls[i].cells : ls[i].cells[id] # Undefined

\* the same without the brush strokes, on a picture whose cells all have a
\* colour: direct calls, fills and eraser strokes
C24_UndoRestoresButBrushStroke ==
  (RecordedThenUndone /\ log[1].op # "brushStroke" /\ Coloured(log[1].before.layers))
    => layers = log[1].before.layers

\* a brush stroke over an empty cell was recorded and undone
C24_BrushStrokeUndone ==
  /\ RecordedThenUndone /\ log[1].op = "brushStroke"
  /\ \E i \in 1..Len(history[1].commands) :
       history[1].commands[i].cellId \notin DOMAIN log[1].before.layers[1].cells

\* the log's first call was an undo that took a command back, the second a
\* redo that put it on again, and nothing was called since
UndoneThenRedone ==
  /\ Len(log) = 2 /\ Idle /\ ~isPainting
  /\ log[1].op = "undo" /\ log[2].op = "redo"
  /\ log[1].before.historyIndex >= 0
  /\ log[2].before.history = log[1].before.history
  /\ log[2].before.historyIndex = log[1].before.historyIndex - 1
  /\ history = log[2].before.history
  /\ historyIndex = log[2].before.historyIndex + 1

\* C25: undo followed by redo leaves every layer's cells and historyIndex
\* as they were before the undo, whatever kind of command it was
C25_RedoInvertsUndo ==
  UndoneThenRedone =>
    /\ layers = log[1].before.layers
    /\ historyIndex = log[1].before.historyIndex

\* the commands of the history entry that was undone and redone
Redone == CommandsOf(history[historyIndex + 1])

\* the same for the entries made of paint commands only
C25_RedoInvertsUndoOfPaint ==
  (UndoneThenRedone /\ \A i \in 1..Len(Redone) : Redone[i].type = "paint")
    => layers = log[1].before.layers

\* a paintCell or a fill was undone and redone
C25_PaintRedone ==
  UndoneThenRedone /\ \A i \in 1..Len(Redone) : Redone[i].type = "paint"

\* the index points into the history or is -1, and the history is no longer
\* than maxHistorySize
HistoryInBounds ==
  /\ -1 <= historyIndex /\ historyIndex <= Len(history) - 1
  /\ Len(history) <= maxHistorySize

\* a step that changes the history leaves the index at its last command
IndexAtNewest == history' # history => historyIndex' = Len(history') - 1

C28_QueueWithoutDuplicates ==
  \A i, j \in 1..Len(fill.toProcess) :
    fill.toProcess[i] = fill.toProcess[j] => i = j

\* the cells the fill should reach and did not record: the rest of the start
\* cell's region, which has no end when the start cell is empty
FillLeftOut ==
  fill.targetColor = Null
    \/ Region(LayerCells(fill.layerId), fill.grid, fill.start)
         \ ChangeIds(fill.changes) # {}

\* floodFill stopped at MAX_CELLS and left out a cell of the region
FillTruncated == fill.processedCells >= MAX_CELLS /\ FillLeftOut

\* C27: floodFill gives the warning of the cap if and only if it stopped at
\* MAX_CELLS with a cell of the region left out
C27_WarningIffTruncated ==
  fill.pc = "returned" => (fill.warned <=> FillTruncated)

\* the half that holds: a truncated fill warns, and a fill that warns
\* stopped at MAX_CELLS
C27_TruncatedWarns ==
  fill.pc = "returned" =>
    /\ FillTruncated => fill.warned
    /\ fill.warned => fill.processedCells >= MAX_CELLS

\* a fill was cut off and warned
C27_TruncatedFill == fill.pc = "returned" /\ FillTruncated /\ fill.warned

\* the calls the lock is to stop
LockedOps == {"paintCell", "eraseCell", "fillArea"}

\* C29: a call of paintCell, eraseCell or fillArea while the active layer is
\* locked, or while no layer has the id activeLayerId, changes no layer's
\* cells, nor the current stroke, the history or historyIndex
C29_LockedLayerUntouched ==
  [][(~Editable /\ log' # log /\ LastCall(log') \in LockedOps) =>
       UNCHANGED <<layers, currentStroke, history, historyIndex>>]_vars

\* paintCell was called on a locked layer that holds a blue cell, outside a
\* stroke, and the layer is as before
C29_Witness ==
  /\ LastCall(log) = "paintCell"
  /\ ~isPainting
  /\ HasLayer(layers, activeLayerId) /\ ActiveLayer.locked
  /\ ActiveLayer.cells # EmptyCells
  /\ log[Len(log)].before.layers = layers
  /\ log[Len(log)].before.activeLayerId = activeLayerId

\* the same within a stroke
C29_WitnessInStroke ==
  /\ LastCall(log) = "paintCell"
  /\ isPainting
  /\ HasLayer(layers, activeLayerId) /\ ActiveLayer.locked
  /\ currentStroke.cells = <<>>

\* the same for eraseCell, fillArea and a missing active layer
C29_WitnessErase ==
  LastCall(log) = "eraseCell" /\ HasLayer(layers, activeLayerId) /\ ActiveLayer.locked

C29_WitnessFill ==
  LastCall(log) = "fillArea" /\ HasLayer(layers, activeLayerId) /\ ActiveLayer.locked

C29_WitnessNoLayer ==
  LastCall(log) \in LockedOps /\ ~HasLayer(layers, activeLayerId)

\* C30: func is never invoked with the arguments of a call after it was
\* invoked with those of a later call
C30_DeliveredInOrder ==
  \A i, j \in 1..Len(invoked) : i < j => invoked[i] < invoked[j]

\* func was invoked with the arguments of call k
Delivered(k) == \E i \in 1..Len(invoked) : invoked[i] = k

\* the arguments of the most recent call are delivered in the end
C30_LastCallDelivered ==
  \A k \in 1..MaxCalls : (callCount = k) ~> (callCount > k \/ Delivered(k))

\* a call ran at once while the timer of an earlier call was waiting
C30_LateTimer ==
  /\ timeoutId.armed
  /\ invoked # <<>>
  /\ invoked[Len(invoked)] > timeoutId.args

=============================================================================
